---- MODULE Spec2Model ----
(***************************************************************************)
(* A model of pyzotplus: the local SQLite store (database.py) and the      *)
(* sync engine (sync.py) that reconciles it with a remote Zotero library.  *)
(*                                                                         *)
(* The store is the items table and the sync_meta table.  The remote is    *)
(* the Zotero client the engine calls (zot.item_versions, zot.item,        *)
(* zot.update_item, zot.last_modified_version); its implementation is not  *)
(* part of the sources, so it is modelled from section 6 of the design     *)
(* (a library-wide version counter; every write gives the written item     *)
(* the next value of the counter).                                         *)
(*                                                                         *)
(* A pass (pull_changes, push_changes) is a sequence of steps, one per     *)
(* remote call, so that another writer of the remote library and a failing *)
(* remote call can fall between two calls of the same pass.  The store's   *)
(* own callers (add_item, update_item, delete_item) run between passes     *)
(* only: the store has one connection and the passes are synchronous.      *)
(***************************************************************************)
EXTENDS Integers, Sequences, FiniteSets, TLC

(* ------------------------------ bounds -------------------------------- *)

\* The remote library version counter stops here (bounds the remote writes).
MaxVersion == 3
\* The wall clock stops here: every call of the store's callers and every
\* pass happens at a later time than the call before it.
MaxClock == 3
\* init_db is called at most this many times on the file.
MaxOpens == 2
\* The store helpers are called at most this many times.
MaxStoreOps == 6
\* The helpers of collections, templates and sync metadata are called at most
\* this many times.
MaxCrudOps == 5
\* write_note and the helpers that prepare it are called at most this many
\* times.
MaxNoteOps == 4
\* set_lab_id, ensure_lab_ids and the edits of the library happen at most
\* this many times.
MaxLabOps == 3
\* The functions of pyzotero_academic are called at most this many times.
MaxAcademicOps == 2

Keys == {"K1", "K2"}
\* The titles the remote writers give an item, and the title of a local draft.
Titles == {"Paper X"}
DraftTitles == {"Paper Y"}

\* SQL NULL in an integer or text column (versions, times and ids are >= 0).
NULL == -1
\* item["data"] of a remote item that has no "title" entry.
NoTitle == "<no title>"

(* ------------------------------ state --------------------------------- *)

VARIABLES
    items,            \* the items table: a set of rows
    sync_meta,        \* the sync_meta table: key -> value
    remote,           \* the remote library: key -> [version, title]
    libVersion,       \* the remote library's global version counter
    clock,            \* datetime.utcnow() as read by the running call
    pc,               \* "idle", "pull_loop", "push_loop", "push_refetch", "done"
    pass,             \* "none", "pull", "push": the pass that runs or just ended
    result,           \* "none", "ok", "failed": how the pass of pc = "done" ended
    remote_versions,  \* the pass's local remote_versions: key -> version
    todo,             \* pull: keys still to visit; push: row ids still to visit
    cur,              \* push: [id, expected] of the row written remotely, or <<>>
    pre,              \* history: the items table when the pass started
    metaPre,          \* history: sync_meta when the pass started
    since,            \* history: the since cursor the pull listed with
    fetched,          \* history: key -> the item zot.item returned in this pass
    writes,           \* history: the zot.update_item calls of this pass
    libRead,          \* history: what zot.last_modified_version returned, or NULL
    quiet,            \* history: the last pass was an ok pull and the remote
                      \* has not changed since it ended
    second,           \* history: this pull started quiet and the remote has not
                      \* changed during it
    user_version,     \* PRAGMA user_version: the schema-version marker of the file
    schema,           \* the tables and added columns the file holds
    registry,         \* the keys of MIGRATIONS
    mpc,              \* init_db: "closed", "migrating", "open", "failed"
    mver,             \* migrate: the loop variable `version`
    mstmt,            \* migrate: the statement of MIGRATIONS[version] to run next
    opens,            \* the number of init_db calls so far
    applied,          \* history: the migrations completed, in order
    started,          \* history: the versions this init_db call's loop visited
    markerAtOpen,     \* history: user_version when this init_db call started
    schemaAtOpen,     \* history: schema when this init_db call started
    lastFailed,       \* history: the version the last init_db call failed in, or 0
    raised,           \* the exception this init_db call ended with, or "none"
    tags,             \* the tags table: a set of rows
    attachments,      \* the attachments table: a set of rows
    notes,            \* the notes table: a set of rows
    fulltext,         \* the fulltext table: a set of rows
    storeOps,         \* the number of store helper calls so far
    lastOp,           \* history: the last store helper call and its item_id
    storePre,         \* history: the tables before the last store helper call
    collections,      \* the collections table: a set of rows
    note_templates,   \* the note_templates table: a set of rows
    storeRet,         \* what the last store helper call returned or raised
    remote_notes,     \* the child notes of the remote library: a set of notes
    library,          \* the Zotero library of lab_id and pyzotero_academic:
                      \* key -> the data of the item
    lab_db            \* lab_id: the registry file, identifier -> key

syncVars == <<items, sync_meta, remote, libVersion, clock, pc, pass, result,
          remote_versions, todo, cur, pre, metaPre, since, fetched, writes,
          libRead, quiet, second>>

storeVars == <<items, sync_meta>>
remoteVars == <<remote, libVersion>>
passVars == <<pc, pass, result, remote_versions, todo, cur>>
histVars == <<pre, metaPre, since, fetched, writes, libRead>>
quietVars == <<quiet, second>>
migVars == <<user_version, schema, registry, mpc, mver, mstmt, opens, applied,
             started, markerAtOpen, schemaAtOpen, lastFailed, raised>>
\* What the passes and the callers of the item helpers leave alone.
depVars == <<tags, attachments, notes, fulltext>>
storeHistVars == <<storeOps, lastOp, storePre>>
crudVars == <<collections, note_templates, storeRet, remote_notes>>
labVars == <<library, lab_db>>
otherVars == <<migVars, depVars, storeHistVars, crudVars, labVars>>
\* What init_db leaves alone.
nonMigVars == <<syncVars, depVars, storeHistVars, crudVars, labVars>>
vars == <<syncVars, otherVars>>

(* ----------------------------- helpers -------------------------------- *)

EmptyMap == <<>>

Max(S) == CHOOSE x \in S : \A y \in S : y <= x
Min(S) == CHOOSE x \in S : \A y \in S : x <= y

\* dict.get(key, default)
Get(map, key, default) == IF key \in DOMAIN map THEN map[key] ELSE default

\* json.dumps / json.loads of an item: the text column holds the encoded item.
Dumps(item) == [json |-> item]
Loads(text) == text.json

\* str(version) as stored in sync_meta.value, and int(row["value"]).
py_str(n) == <<"str", n>>
py_int(s) == s[2]

RowOfKey(rows, key) == CHOOSE r \in rows : r.key = key
RowOfId(rows, id) == CHOOSE r \in rows : r.id = id
HasKey(rows, key) == \E r \in rows : r.key = key
HasId(rows, id) == \E r \in rows : r.id = id

NextId(rows) == IF rows = {} THEN 1 ELSE Max({r.id : r \in rows}) + 1

(* --------------------------- database.py ------------------------------ *)

\* add_item as it would be had the items.key column lost its UNIQUE constraint.
add_item_not_unique(rows, key, title, data, collection_id, version, synced_at) ==
    rows \cup {[id |-> NextId(rows), key |-> key, title |-> title,
                collection_id |-> collection_id, data |-> data,
                version |-> version, synced_at |-> synced_at]}

\* INSERT INTO items(...): a new row with the next rowid.  The UNIQUE
\* constraint on items.key rejects a second row with the same key
\* (sqlite3.IntegrityError; nothing is inserted).
add_item(rows, key, title, data, collection_id, version, synced_at) ==
    IF HasKey(rows, key)
    THEN rows
    ELSE rows \cup {[id |-> NextId(rows), key |-> key, title |-> title,
                     collection_id |-> collection_id, data |-> data,
                     version |-> version, synced_at |-> synced_at]}

\* UPDATE items SET <the named columns> WHERE id = item_id; no fields: return.
update_item(rows, item_id, fields) ==
    IF DOMAIN fields = {}
    THEN rows
    ELSE {IF r.id = item_id
          THEN [c \in DOMAIN r |-> IF c \in DOMAIN fields THEN fields[c] ELSE r[c]]
          ELSE r : r \in rows}

\* DELETE FROM items WHERE id = item_id.
delete_item(rows, item_id) == {r \in rows : r.id # item_id}

\* init_db: conn.execute("PRAGMA foreign_keys = ON")
foreign_keys == TRUE

\* INSERT INTO <a table whose item_id REFERENCES items(id)>: a new row with
\* the next rowid; with foreign keys enforced a row for a missing item is
\* rejected (sqlite3.IntegrityError; nothing is inserted).
add_dependent(rows, item_rows, item_id, columns) ==
    IF foreign_keys /\ ~HasId(item_rows, item_id)
    THEN rows
    ELSE rows \cup {[id |-> NextId(rows), item_id |-> item_id] @@ columns}

\* add_tag: INSERT INTO tags(item_id, tag)
add_tag(rows, item_rows, item_id, tag) ==
    add_dependent(rows, item_rows, item_id, [tag |-> tag])

\* add_attachment: INSERT INTO attachments(item_id, filename, path)
add_attachment(rows, item_rows, item_id, filename, path) ==
    add_dependent(rows, item_rows, item_id, [filename |-> filename, path |-> path])

\* add_note: INSERT INTO notes(item_id, content)
add_note(rows, item_rows, item_id, content) ==
    add_dependent(rows, item_rows, item_id, [content |-> content])

\* add_fulltext: INSERT INTO fulltext(rowid, item_id, content) VALUES (NULL, ?, ?);
\* the virtual table has no foreign key.
add_fulltext(rows, item_id, content) ==
    rows \cup {[id |-> NextId(rows), item_id |-> item_id, content |-> content]}

\* delete_fulltext, and the second statement of delete_item:
\* DELETE FROM fulltext WHERE item_id = ?
delete_fulltext(rows, item_id) == {r \in rows : r.item_id # item_id}

\* ON DELETE CASCADE as it would be with the rows of the child table left
\* alone.
on_delete_no_action(rows, item_rows, item_id) == rows

\* REFERENCES items(id) ON DELETE CASCADE: with foreign keys enforced, the
\* rows of the child table that refer to a deleted item go with it.
on_delete_cascade(rows, item_rows, item_id) ==
    IF foreign_keys /\ HasId(item_rows, item_id)
    THEN {r \in rows : r.item_id # item_id}
    ELSE rows

\* conn.execute raises sqlite3.IntegrityError on a UNIQUE or FOREIGN KEY
\* violation; the helper does not catch it.
IntegrityError == "sqlite3.IntegrityError"

\* A helper without a return statement returns None.
None == NULL

\* FOREIGN KEY(collection_id) REFERENCES collections(id): with foreign keys
\* enforced, a non-NULL collection_id has to name a row of collections.
collection_fk_ok(collection_rows, collection_id) ==
    \/ ~foreign_keys
    \/ collection_id = NULL
    \/ HasId(collection_rows, collection_id)

\* add_item on the connection of init_db: INSERT INTO items is rejected for a
\* key that exists (UNIQUE) and for a collection that does not (FOREIGN KEY).
item_rejected(item_rows, collection_rows, key, collection_id) ==
    \/ HasKey(item_rows, key)
    \/ ~collection_fk_ok(collection_rows, collection_id)

\* How a helper call ends: with a return value, or with an exception.
Returned(value) == [raised |-> "none", value |-> value]
Raised(exception) == [raised |-> exception, value |-> None]

\* return int(cur.lastrowid), or the exception of conn.execute.
insert_return(rows, rejected) ==
    IF rejected THEN Raised(IntegrityError) ELSE Returned(NextId(rows))

\* add_collection as it would be had collections.key lost its UNIQUE
\* constraint.
add_collection_not_unique(rows, key, name) ==
    rows \cup {[id |-> NextId(rows), key |-> key, name |-> name]}

\* add_collection: INSERT INTO collections(key, name); key TEXT UNIQUE.
add_collection(rows, key, name) ==
    IF HasKey(rows, key)
    THEN rows
    ELSE rows \cup {[id |-> NextId(rows), key |-> key, name |-> name]}

HasName(rows, name) == \E r \in rows : r.name = name

\* add_note_template: INSERT INTO note_templates(name, content); name TEXT UNIQUE.
add_note_template(rows, name, content) ==
    IF HasName(rows, name)
    THEN rows
    ELSE rows \cup {[id |-> NextId(rows), name |-> name, content |-> content]}

\* get_note_template: the content of the row with that name, or None.
get_note_template(rows, name) ==
    IF HasName(rows, name)
    THEN (CHOOSE r \in rows : r.name = name).content
    ELSE None

\* update_collection: UPDATE collections SET <the named columns> WHERE id = ?;
\* no fields: return.
update_collection(rows, collection_id, fields) ==
    IF DOMAIN fields = {}
    THEN rows
    ELSE {IF r.id = collection_id
          THEN [c \in DOMAIN r |-> IF c \in DOMAIN fields THEN fields[c] ELSE r[c]]
          ELSE r : r \in rows}

\* update_note as it would be with a WHERE clause on item_id.
update_note_by_item(rows, note_id, content) ==
    {IF r.item_id = note_id THEN [r EXCEPT !.content = content] ELSE r : r \in rows}

\* update_note: UPDATE notes SET content = ? WHERE id = ?
update_note(rows, note_id, content) ==
    {IF r.id = note_id THEN [r EXCEPT !.content = content] ELSE r : r \in rows}

\* update_note_template: UPDATE note_templates SET content = ? WHERE name = ?
update_note_template(rows, name, content) ==
    {IF r.name = name THEN [r EXCEPT !.content = content] ELSE r : r \in rows}

\* The first statement of delete_collection as it would be had it deleted
\* the items of the collection.
null_collection_refs_deletes(item_rows, collection_id) ==
    {r \in item_rows : r.collection_id # collection_id}

\* delete_collection: UPDATE items SET collection_id = NULL WHERE collection_id = ?
null_collection_refs(item_rows, collection_id) ==
    {IF r.collection_id = collection_id THEN [r EXCEPT !.collection_id = NULL] ELSE r
        : r \in item_rows}

\* REFERENCES collections(id) ON DELETE SET NULL: with foreign keys
\* enforced, what DELETE FROM collections does to the items that still
\* refer to the row.
on_delete_set_null(item_rows, collection_rows, collection_id) ==
    IF foreign_keys /\ HasId(collection_rows, collection_id)
    THEN null_collection_refs(item_rows, collection_id)
    ELSE item_rows

\* delete_collection: DELETE FROM collections WHERE id = ?
delete_collection(rows, collection_id) == {r \in rows : r.id # collection_id}

\* An UPDATE of items is rejected when it gives the row the key of another
\* row (UNIQUE) or a collection that does not exist (FOREIGN KEY).
update_item_rejected(item_rows, collection_rows, item_id, fields) ==
    /\ HasId(item_rows, item_id)
    /\ \/ /\ "key" \in DOMAIN fields
          /\ \E r \in item_rows : r.id # item_id /\ r.key = fields["key"]
       \/ /\ "collection_id" \in DOMAIN fields
          /\ ~collection_fk_ok(collection_rows, fields["collection_id"])

\* get_last_sync_version as it would be without its `else 0`.
get_last_sync_version_no_default(meta) ==
    IF "library_version" \in DOMAIN meta THEN py_int(meta["library_version"]) ELSE None

\* SELECT value FROM sync_meta WHERE key = 'library_version'; 0 without a row.
get_last_sync_version(meta) ==
    IF "library_version" \in DOMAIN meta THEN py_int(meta["library_version"]) ELSE 0

\* update_last_sync as it would be without its first INSERT OR REPLACE.
update_last_sync_keeps_version(meta, version, now) ==
    [k \in DOMAIN meta \cup {"last_sync"} |->
        IF k = "last_sync" THEN now ELSE meta[k]]

\* update_last_sync as it would be without its second INSERT OR REPLACE.
update_last_sync_keeps_time(meta, version, now) ==
    [k \in DOMAIN meta \cup {"library_version"} |->
        IF k = "library_version" THEN py_str(version) ELSE meta[k]]

\* INSERT OR REPLACE of 'library_version' and of 'last_sync', then one commit.
update_last_sync(meta, version, now) ==
    [k \in DOMAIN meta \cup {"library_version", "last_sync"} |->
        IF k = "library_version" THEN py_str(version)
        ELSE IF k = "last_sync" THEN now
        ELSE meta[k]]

(* ------------------------- the remote library -------------------------- *)

\* zot.item(key): the full item, with its top-level key and version.
zot_item(key) ==
    [key |-> key, version |-> remote[key].version, title |-> remote[key].title]

\* zot.item_versions(since=v): the items whose version is greater than v.
zot_item_versions(v) ==
    [k \in {x \in DOMAIN remote : remote[x].version > v} |-> remote[k].version]

\* zot.item_versions(): the versions of all items.
zot_item_versions_all == [k \in DOMAIN remote |-> remote[k].version]

\* zot.last_modified_version(): the library's global version counter.
zot_last_modified_version == libVersion

\* zot.update_item(item, last_modified=v) is refused (412) when the remote
\* item has changed after version v.
zot_conflict(key, last_modified) ==
    key \in DOMAIN remote /\ remote[key].version > last_modified

\* The library after a write of `title` under `key`: the item gets the next
\* value of the library's version counter.
zot_written(key, title) ==
    (key :> [version |-> libVersion + 1, title |-> title]) @@ remote

(* ------------------------------ sync.py ------------------------------- *)

\* item.get("data", {}).get("title", "")
item_title(item) == IF item.title = NoTitle THEN "" ELSE item.title

\* pull_item as it would be had the overwrite left the version column out.
pull_item_stale_version(rows, key, version, item, synced_at) ==
    IF ~HasKey(rows, key)
    THEN add_item(rows, key, item_title(item), Dumps(item), NULL, version, synced_at)
    ELSE IF RowOfKey(rows, key).version < version
    THEN update_item(rows, RowOfKey(rows, key).id,
                     [title |-> item_title(item), data |-> Dumps(item),
                      synced_at |-> synced_at])
    ELSE rows

\* pull_item as it would be had the insert relied on add_item's default version.
pull_item_default_version(rows, key, version, item, synced_at) ==
    IF ~HasKey(rows, key)
    THEN add_item(rows, key, item_title(item), Dumps(item), NULL, 0, synced_at)
    ELSE IF RowOfKey(rows, key).version < version
    THEN update_item(rows, RowOfKey(rows, key).id,
                     [title |-> item_title(item), data |-> Dumps(item),
                      version |-> version, synced_at |-> synced_at])
    ELSE rows

\* pull_item as it would be had the comparison been `<=`.
pull_item_overwrites_equal(rows, key, version, item, synced_at) ==
    IF ~HasKey(rows, key)
    THEN add_item(rows, key, item_title(item), Dumps(item), NULL, version, synced_at)
    ELSE IF RowOfKey(rows, key).version <= version
    THEN update_item(rows, RowOfKey(rows, key).id,
                     [title |-> item_title(item), data |-> Dumps(item),
                      version |-> version, synced_at |-> synced_at])
    ELSE rows

\* pull_item as it would be had every known row been overwritten.
pull_item_always_overwrites(rows, key, version, item, synced_at) ==
    IF ~HasKey(rows, key)
    THEN add_item(rows, key, item_title(item), Dumps(item), NULL, version, synced_at)
    ELSE update_item(rows, RowOfKey(rows, key).id,
                     [title |-> item_title(item), data |-> Dumps(item),
                      version |-> version, synced_at |-> synced_at])

\* The body of pull_changes' loop for one changed key: insert the missing
\* row, overwrite the older one, leave the others.
pull_item(rows, key, version, item, synced_at) ==
    LET data_json == Dumps(item)
        title == item_title(item)
    IN  IF ~HasKey(rows, key)
        THEN add_item(rows, key, title, data_json, NULL, version, synced_at)
        ELSE IF RowOfKey(rows, key).version < version
        THEN update_item(rows, RowOfKey(rows, key).id,
                         [title |-> title, data |-> data_json,
                          version |-> version, synced_at |-> synced_at])
        ELSE rows

\* row["version"] or 0
local_version_of(row) == IF row.version = NULL THEN 0 ELSE row.version

\* remote_version_of as it would be had the default been below every version.
remote_version_of_no_default(versions, key) == Get(versions, key, NULL)

\* remote_versions.get(key, 0)
remote_version_of(versions, key) == Get(versions, key, 0)

\* if local_version > remote_version: the local copy is written to the remote.
push_local_newer(row, versions) ==
    local_version_of(row) > remote_version_of(versions, row.key)

\* push_remote_newer as it would be had the second branch been a plain else.
push_remote_newer_or_equal(row, versions) ==
    remote_version_of(versions, row.key) >= local_version_of(row)

\* elif remote_version > local_version: the remote copy is stored.
push_remote_newer(row, versions) ==
    remote_version_of(versions, row.key) > local_version_of(row)

\* The item push_changes sends: the stored data with key and version set.
push_payload(row, remote_version) ==
    [Loads(row.data) EXCEPT !.key = row.key, !.version = remote_version]

\* push_expected as it would be had the write declared the local version.
push_expected_local(row, versions) == local_version_of(row)

\* The expected version push_changes declares with its write.
push_expected(row, versions) == remote_version_of(versions, row.key)

\* push_store as it would be had the update left the version column out.
push_store_keeps_version(rows, item_id, item, synced_at) ==
    update_item(rows, item_id,
                [data |-> Dumps(item), synced_at |-> synced_at])

\* Both branches of push_changes store the item zot.item returned.
push_store(rows, item_id, item, synced_at) ==
    update_item(rows, item_id,
                [data |-> Dumps(item), version |-> item.version,
                 synced_at |-> synced_at])

\* What pull_changes and push_changes return: both are declared `-> None`
\* and have no return statement.
pull_changes_return == NULL
push_changes_return == NULL

\* What a pass records when it ends without an exception.
record_sync(meta, new_version, now) == update_last_sync(meta, new_version, now)

(* --------------------------- sync.py: write_note ----------------------- *)

\* A template is a sequence of parts: literal text, or a replacement field
\* {name}.
Lit(text) == [lit |-> text]
Field(name) == [field |-> name]
IsField(part) == "field" \in DOMAIN part

\* The empty string.
Blank == <<>>

\* The names of the replacement fields of a template.
fields_of(template) ==
    {template[i].field : i \in {j \in DOMAIN template : IsField(template[j])}}

\* str.format(**data) raises KeyError for a replacement field that data
\* does not name.
format_raises(template, data) == \E name \in fields_of(template) : name \notin DOMAIN data

\* str.format(**data): every replacement field replaced by its value, the
\* literal text kept; values no field refers to are ignored.
format(template, data) ==
    [i \in DOMAIN template |->
        IF IsField(template[i]) THEN data[template[i].field] ELSE template[i].lit]

\* zot.note_template(): the default blank note of the remote library.
zot_note_template == [itemType |-> "note", note |-> Blank]

\* The note key the remote library gives its next child note.
zot_next_note_key(remote_rows) == Cardinality(remote_rows) + 1

\* zot.create_items([note], parentid=parent_key): one child note of the
\* parent, with a key of its own.
zot_create_items(remote_rows, note, parent_key) ==
    remote_rows \cup {[key |-> zot_next_note_key(remote_rows), parentItem |-> parent_key,
                  note |-> note.note]}

\* `content_tpl or note["note"]` as it would be without its first operand.
template_of_default_only(rows, name, note) == note.note

\* template = content_tpl or note["note"]: the stored content unless it is
\* None or the empty string.
template_of(rows, name, note) ==
    IF HasName(rows, name) /\ get_note_template(rows, name) # Blank
    THEN get_note_template(rows, name)
    ELSE note.note

\* next(iter(resp.get("success", {}).values()), None)
write_note_return(success_keys) ==
    IF success_keys = {} THEN None ELSE CHOOSE k \in success_keys : TRUE

\* row = SELECT id FROM items WHERE key = ?; if row: database.add_note(...)
write_note_local(note_rows, item_rows, parent_key, content) ==
    IF HasKey(item_rows, parent_key)
    THEN add_note(note_rows, item_rows, RowOfKey(item_rows, parent_key).id, content)
    ELSE note_rows

(* ------------------------------ lab_id.py ------------------------------ *)

\* LAB_ID_PATTERN: (\d{9})
LAB_ID_DIGITS == 9

\* f"{n:09d}": the decimal digits of n, zero-padded to nine; a number of
\* ten digits keeps its ten digits.
format_09d(n) ==
    [digits |-> n,
     width |-> IF n < 10^LAB_ID_DIGITS THEN LAB_ID_DIGITS ELSE LAB_ID_DIGITS + 1]

\* int(i) of an identifier string.
int_of(id) == id.digits

\* The lines of an `extra` field: another line, "LAB_ID: <digits>",
\* "LAB_ID:" with nothing after it, and a line of digits only.
OtherLine == [kind |-> "other"]
LabLine(id) == [kind |-> "lab", id |-> id]
LabelLine == [kind |-> "label"]
DigitsLine(id) == [kind |-> "digits", id |-> id]

\* Where a match of LAB_ID_PATTERN that starts at line i ends, 0 if none
\* starts there: ^LAB_ID:\s*(\d{9})$ matches a LAB_ID line with nine digits,
\* and, \s* running over the newline, a bare "LAB_ID:" with the nine digits
\* on the next line.
match_end(extra, i) ==
    IF extra[i].kind = "lab" /\ extra[i].id.width = LAB_ID_DIGITS
    THEN i
    ELSE IF /\ extra[i].kind = "label"
            /\ i < Len(extra)
            /\ extra[i + 1].kind = "digits"
            /\ extra[i + 1].id.width = LAB_ID_DIGITS
         THEN i + 1
         ELSE 0

\* The lines at which a match of LAB_ID_PATTERN starts.
match_starts(extra) == {i \in 1..Len(extra) : match_end(extra, i) # 0}

\* LAB_ID_PATTERN.search(extra): the leftmost match, group(1) of it.
search_group(extra) == extra[match_end(extra, Min(match_starts(extra)))].id

\* extract_lab_id(item): group(1) of the first match, or None.
extract_lab_id(extra) ==
    IF match_starts(extra) = {} THEN [digits |-> None, width |-> 0]
    ELSE search_group(extra)

\* extract_lab_id returned None.
is_none(id) == id.width = 0

\* LAB_ID_PATTERN.sub(f"LAB_ID: {lab_id}", extra) from line i on: every
\* match, left to right, replaced by one LAB_ID line.
RECURSIVE pattern_sub(_, _, _)
pattern_sub(extra, i, lab_id) ==
    IF i > Len(extra) THEN <<>>
    ELSE IF match_end(extra, i) # 0
         THEN <<LabLine(lab_id)>> \o pattern_sub(extra, match_end(extra, i) + 1, lab_id)
         ELSE <<extra[i]>> \o pattern_sub(extra, i + 1, lab_id)

\* set_lab_id as it would be without the substitution branch.
set_lab_id_appends(extra, lab_id) ==
    IF extra # <<>> THEN Append(extra, LabLine(lab_id)) ELSE <<LabLine(lab_id)>>

\* set_lab_id(item, lab_id): the matches replaced if there is one, a new
\* last line otherwise (the only line of an empty extra).
set_lab_id(extra, lab_id) ==
    IF match_starts(extra) # {}
    THEN pattern_sub(extra, 1, lab_id)
    ELSE IF extra # <<>> THEN Append(extra, LabLine(lab_id)) ELSE <<LabLine(lab_id)>>

\* max([int(i) for i in db.keys()] or [0])
max_id_of(db) == IF DOMAIN db = {} THEN 0 ELSE Max({int_of(i) : i \in DOMAIN db})

\* db[id] = key
db_set(db, id, key) == [i \in DOMAIN db \cup {id} |-> IF i = id THEN key ELSE db[i]]

\* The branch of ensure_lab_ids for an item with an identifier, as it would
\* be had it recorded the item's key in every case.
ensure_existing_overwrites(st, key, existing) ==
    [st EXCEPT !.db = db_set(st.db, existing, key)]

\* The branch of ensure_lab_ids for an item with an identifier: a mismatch
\* is reported if the registry has the identifier for another key, the
\* identifier is recorded for the key otherwise; the item is not touched.
ensure_existing(st, key, existing) ==
    IF existing \in DOMAIN st.db /\ st.db[existing] # key
    THEN [st EXCEPT !.mismatches =
             Append(@, [lab_id |-> existing, zotero_key |-> key,
                        db_key |-> st.db[existing]])]
    ELSE [st EXCEPT !.db = db_set(st.db, existing, key)]

\* The branch of ensure_lab_ids for an item without an identifier: the next
\* number, set on the item, recorded and reported; zot.update_item(item)
\* is called and writes the item to the library unless it raises, and the
\* exception is swallowed.
ensure_allocate(st, key, fails) ==
    LET new_id == format_09d(st.max_id + 1) IN
    [st EXCEPT !.max_id = @ + 1,
               !.db = db_set(st.db, new_id, key),
               !.allocated = Append(@, new_id),
               !.updates = Append(@, key),
               !.library = IF key \in fails
                           THEN @
                           ELSE [@ EXCEPT ![key].extra = set_lab_id(@, new_id)]]

\* The loop of ensure_lab_ids over items = zot.top(), from item i on.
RECURSIVE ensure_loop(_, _, _, _, _)
ensure_loop(st, listed, order, i, fails) ==
    IF i > Len(order) THEN st
    ELSE LET key == order[i]
             existing == extract_lab_id(listed[key].extra)
         IN ensure_loop(IF ~is_none(existing)
                        THEN ensure_existing(st, key, existing)
                        ELSE ensure_allocate(st, key, fails),
                        listed, order, i + 1, fails)

\* ensure_lab_ids(zot, db_path) on a registry and a library listed in
\* `order`, with zot.update_item raising for the keys in `fails`.
ensure_lab_ids(db, lib, order, fails) ==
    ensure_loop([db |-> db, max_id |-> max_id_of(db), allocated |-> <<>>,
                 mismatches |-> <<>>, updates |-> <<>>, library |-> lib],
                lib, order, 1, fails)

(* -------------------- database.py: schema manager -------------------- *)

SCHEMA_VERSION == 3

\* A statement that creates `obj`; `guarded` is its IF NOT EXISTS.
Stmt(obj, guarded) == [obj |-> obj, guarded |-> guarded]

\* The CREATE TABLE statements of _create_schema_v1's script.
create_schema_v1 ==
    <<Stmt("items", FALSE), Stmt("collections", FALSE), Stmt("tags", FALSE),
      Stmt("attachments", FALSE), Stmt("notes", FALSE), Stmt("fulltext", FALSE)>>

\* _upgrade_schema_v2 as it would be without its second ALTER TABLE.
upgrade_schema_v2_no_synced_at ==
    <<Stmt("items.version", FALSE), Stmt("sync_meta", TRUE)>>

\* The two ALTER TABLE ... ADD COLUMN and the CREATE TABLE IF NOT EXISTS of
\* _upgrade_schema_v2.
upgrade_schema_v2 ==
    <<Stmt("items.version", FALSE), Stmt("items.synced_at", FALSE),
      Stmt("sync_meta", TRUE)>>

\* The CREATE TABLE IF NOT EXISTS of _upgrade_schema_v3.
upgrade_schema_v3 == <<Stmt("note_templates", TRUE)>>

\* MIGRATIONS = {1: _create_schema_v1, 2: _upgrade_schema_v2, 3: _upgrade_schema_v3}
MIGRATIONS ==
    (1 :> create_schema_v1) @@ (2 :> upgrade_schema_v2) @@ (3 :> upgrade_schema_v3)

\* A CREATE or ADD COLUMN without IF NOT EXISTS fails on an object that exists.
stmt_fails(sch, st) == ~st.guarded /\ st.obj \in sch

\* The schema after the statement has run.
stmt_run(sch, st) == sch \cup {st.obj}

\* init_db: `if current < SCHEMA_VERSION: migrate(conn, current, SCHEMA_VERSION)`
needs_migrate(current) == current < SCHEMA_VERSION

\* migrate: range(current + 1, target + 1) starts here.
first_version(current) == current + 1

\* migrate's marker as it would be had the PRAGMA named the target.
marker_of_target(version, target) == target

\* migrate: PRAGMA user_version = {version}
marker_of(version, target) == version

(* ------------------------------- Init --------------------------------- *)

\* A store just opened on a new file (no rows, no sync metadata) and a
\* remote library nobody has written to yet.
InitSync ==
    /\ items = {}
    /\ sync_meta = EmptyMap
    /\ remote = EmptyMap
    /\ libVersion = 0
    /\ clock = 0
    /\ pc = "idle"
    /\ pass = "none"
    /\ result = "none"
    /\ remote_versions = EmptyMap
    /\ todo = {}
    /\ cur = EmptyMap
    /\ pre = {}
    /\ metaPre = EmptyMap
    /\ since = 0
    /\ fetched = EmptyMap
    /\ writes = {}
    /\ libRead = NULL
    /\ quiet = FALSE
    /\ second = FALSE

\* The schema init_db leaves on a new file.
FullSchema ==
    {"items", "collections", "tags", "attachments", "notes", "fulltext",
     "items.version", "items.synced_at", "sync_meta", "note_templates"}

\* The connection the passes and the item helpers use: init_db has returned
\* it, the file is at SCHEMA_VERSION.
InitOpened ==
    /\ user_version = SCHEMA_VERSION
    /\ schema = FullSchema
    /\ registry = DOMAIN MIGRATIONS
    /\ mpc = "open"
    /\ mver = 0
    /\ mstmt = 0
    /\ opens = 1
    /\ applied = <<1, 2, 3>>
    /\ started = <<1, 2, 3>>
    /\ markerAtOpen = 0
    /\ schemaAtOpen = {}
    /\ lastFailed = 0
    /\ raised = "none"

\* No dependent row yet, no store helper called.
NoOp == [op |-> "none", item_id |-> NULL]
NoTables == [items |-> {}, tags |-> {}, attachments |-> {}, notes |-> {},
             fulltext |-> {}]

InitStore ==
    /\ collections = {}
    /\ note_templates = {}
    /\ storeRet = Returned(None)
    /\ remote_notes = {}
    /\ library = EmptyMap
    /\ lab_db = EmptyMap
    /\ tags = {}
    /\ attachments = {}
    /\ notes = {}
    /\ fulltext = {}
    /\ storeOps = 0
    /\ lastOp = NoOp
    /\ storePre = NoTables

Init == InitSync /\ InitOpened /\ InitStore

\* The registries init_db may run with: MIGRATIONS as written, or a build in
\* which one required version has no registered function.
Registries ==
    {DOMAIN MIGRATIONS} \cup {DOMAIN MIGRATIONS \ {n} : n \in DOMAIN MIGRATIONS}

\* A new file nobody has opened: sqlite3.connect creates it empty, with
\* user_version 0.
InitNewFile ==
    /\ user_version = 0
    /\ schema = {}
    /\ registry \in Registries
    /\ mpc = "closed"
    /\ mver = 0
    /\ mstmt = 0
    /\ opens = 0
    /\ applied = <<>>
    /\ started = <<>>
    /\ markerAtOpen = 0
    /\ schemaAtOpen = {}
    /\ lastFailed = 0
    /\ raised = "none"

(* ------------------- the store's callers, between passes --------------- *)

\* add_item(conn, key, title, data): version 0 and no synced_at by default.
AppAddItem ==
    /\ pc = "idle"
    /\ UNCHANGED otherVars
    /\ clock < MaxClock
    /\ clock' = clock + 1
    /\ \E key \in Keys, title \in DraftTitles :
        items' = add_item(items, key, title,
                          Dumps([key |-> key, version |-> 0, title |-> title]),
                          NULL, 0, NULL)
    /\ UNCHANGED <<sync_meta, remoteVars, passVars, histVars, quietVars>>

\* The field maps the callers pass to update_item: the cached version counter
\* advanced out of band, or an edited title (in the title column and in the
\* data).
AppFieldMaps(row) ==
    {[version |-> v] : v \in {local_version_of(row) + 1} \cap 0..MaxVersion}
    \cup {[title |-> t, data |-> Dumps([Loads(row.data) EXCEPT !.title = t])] :
            t \in DraftTitles}

AppUpdateItem ==
    /\ pc = "idle"
    /\ UNCHANGED otherVars
    /\ clock < MaxClock
    /\ clock' = clock + 1
    /\ \E row \in items : \E fields \in AppFieldMaps(row) :
        items' = update_item(items, row.id, fields)
    /\ UNCHANGED <<sync_meta, remoteVars, passVars, histVars, quietVars>>

\* delete_item(conn, item_id), both statements and what the first one
\* cascades to.
DeleteItemRows(item_id) ==
    /\ items' = delete_item(items, item_id)
    /\ tags' = on_delete_cascade(tags, items, item_id)
    /\ attachments' = on_delete_cascade(attachments, items, item_id)
    /\ notes' = on_delete_cascade(notes, items, item_id)
    /\ fulltext' = delete_fulltext(fulltext, item_id)

AppDeleteItem ==
    /\ pc = "idle"
    /\ UNCHANGED <<migVars, labVars, storeHistVars, crudVars>>
    /\ clock < MaxClock
    /\ clock' = clock + 1
    /\ \E row \in items : DeleteItemRows(row.id)
    /\ UNCHANGED <<sync_meta, remoteVars, passVars, histVars, quietVars>>

(* ------------------------ another remote writer ------------------------ *)

\* Somebody else creates or changes an item of the remote library.
RemoteWrite ==
    /\ pc # "done"
    /\ UNCHANGED otherVars
    /\ libVersion < MaxVersion
    /\ \E key \in Keys, title \in Titles \cup {NoTitle} :
        remote' = zot_written(key, title)
    /\ libVersion' = libVersion + 1
    /\ quiet' = FALSE
    /\ second' = FALSE
    /\ UNCHANGED <<storeVars, clock, passVars, histVars>>

(* ---------------------------- pull_changes ----------------------------- *)

\* last_version = get_last_sync_version(conn);
\* remote_versions = zot.item_versions(since=last_version)
PullStart ==
    /\ pc = "idle"
    /\ UNCHANGED otherVars
    /\ clock < MaxClock
    /\ clock' = clock + 1
    /\ LET last_version == get_last_sync_version(sync_meta)
       IN  /\ remote_versions' = zot_item_versions(last_version)
           /\ todo' = DOMAIN zot_item_versions(last_version)
           /\ since' = last_version
    /\ pc' = "pull_loop"
    /\ pass' = "pull"
    /\ result' = "none"
    /\ pre' = items
    /\ metaPre' = sync_meta
    /\ fetched' = EmptyMap
    /\ writes' = {}
    /\ libRead' = NULL
    /\ second' = quiet
    /\ quiet' = FALSE
    /\ UNCHANGED <<storeVars, remoteVars, cur>>

\* One iteration of `for key, version in remote_versions.items()`.
PullItem ==
    /\ pc = "pull_loop"
    /\ UNCHANGED otherVars
    /\ \E key \in todo \cap DOMAIN remote :
        LET item == zot_item(key)
        IN  /\ items' = pull_item(items, key, remote_versions[key], item, clock)
            /\ fetched' = (key :> item) @@ fetched
            /\ todo' = todo \ {key}
    /\ UNCHANGED <<sync_meta, remoteVars, clock, pc, pass, result,
                   remote_versions, cur, pre, metaPre, since, writes, libRead,
                   quietVars>>

\* new_version = zot.last_modified_version(); update_last_sync(conn, new_version)
PullFinish ==
    /\ pc = "pull_loop"
    /\ UNCHANGED otherVars
    /\ todo = {}
    /\ sync_meta' = record_sync(sync_meta, zot_last_modified_version, clock)
    /\ libRead' = zot_last_modified_version
    /\ pc' = "done"
    /\ result' = "ok"
    /\ quiet' = TRUE
    /\ UNCHANGED <<items, remoteVars, clock, pass, remote_versions, todo, cur,
                   pre, metaPre, since, fetched, writes, second>>

(* ---------------------------- push_changes ----------------------------- *)

\* remote_versions = zot.item_versions(); the cursor over items opens.
PushStart ==
    /\ pc = "idle"
    /\ UNCHANGED otherVars
    /\ clock < MaxClock
    /\ clock' = clock + 1
    /\ remote_versions' = zot_item_versions_all
    /\ todo' = {r.id : r \in items}
    /\ pc' = "push_loop"
    /\ pass' = "push"
    /\ result' = "none"
    /\ pre' = items
    /\ metaPre' = sync_meta
    /\ since' = 0
    /\ fetched' = EmptyMap
    /\ writes' = {}
    /\ libRead' = NULL
    /\ quiet' = FALSE
    /\ second' = FALSE
    /\ UNCHANGED <<storeVars, remoteVars, cur>>

\* The row the cursor yields next: rows come in rowid order.
PushRow == RowOfId(items, Min(todo))

\* local_version > remote_version: zot.update_item(item, last_modified=...)
\* is accepted and the server gives the item its next version.
PushWrite ==
    /\ pc = "push_loop"
    /\ UNCHANGED otherVars
    /\ todo # {}
    /\ LET row == PushRow
           expected == push_expected(row, remote_versions)
           item == push_payload(row, remote_version_of(remote_versions, row.key))
       IN  /\ push_local_newer(row, remote_versions)
           /\ ~zot_conflict(item.key, expected)
           /\ libVersion < MaxVersion
           /\ remote' = zot_written(item.key, item.title)
           /\ libVersion' = libVersion + 1
           /\ writes' = writes \cup {[key |-> item.key, expected |-> expected,
                                      sent |-> item,
                                      assigned |-> libVersion + 1]}
           /\ cur' = [id |-> row.id, key |-> row.key]
    /\ pc' = "push_refetch"
    /\ quiet' = FALSE
    /\ second' = FALSE
    /\ UNCHANGED <<storeVars, clock, pass, result, remote_versions, todo,
                   pre, metaPre, since, fetched, libRead>>

\* The write is refused: the remote item is newer than the version the
\* pass declared (PreConditionFailed); push_changes does not catch it.
PushConflict ==
    /\ pc = "push_loop"
    /\ UNCHANGED otherVars
    /\ todo # {}
    /\ LET row == PushRow
       IN  /\ push_local_newer(row, remote_versions)
           /\ zot_conflict(row.key, push_expected(row, remote_versions))
    /\ pc' = "done"
    /\ result' = "failed"
    /\ UNCHANGED <<storeVars, remoteVars, clock, pass, remote_versions, todo,
                   cur, histVars, quietVars>>

\* updated = zot.item(key); update_item(conn, row["id"], data=..., version=...)
PushRefetch ==
    /\ pc = "push_refetch"
    /\ UNCHANGED otherVars
    /\ cur.key \in DOMAIN remote
    /\ LET updated == zot_item(cur.key)
       IN  /\ items' = push_store(items, cur.id, updated, clock)
           /\ fetched' = (cur.key :> updated) @@ fetched
    /\ todo' = todo \ {cur.id}
    /\ cur' = EmptyMap
    /\ pc' = "push_loop"
    /\ UNCHANGED <<sync_meta, remoteVars, clock, pass, result, remote_versions,
                   pre, metaPre, since, writes, libRead, quietVars>>

\* remote_version > local_version: item = zot.item(key); update_item(...)
PushOverwrite ==
    /\ pc = "push_loop"
    /\ UNCHANGED otherVars
    /\ todo # {}
    /\ LET row == PushRow
           item == zot_item(row.key)
       IN  /\ ~push_local_newer(row, remote_versions)
           /\ push_remote_newer(row, remote_versions)
           /\ row.key \in DOMAIN remote
           /\ items' = push_store(items, row.id, item, clock)
           /\ fetched' = (row.key :> item) @@ fetched
           /\ todo' = todo \ {row.id}
    /\ UNCHANGED <<sync_meta, remoteVars, clock, pc, pass, result,
                   remote_versions, cur, pre, metaPre, since, writes, libRead,
                   quietVars>>

\* Equal versions: neither branch of the loop body runs.
PushSkip ==
    /\ pc = "push_loop"
    /\ UNCHANGED otherVars
    /\ todo # {}
    /\ LET row == PushRow
       IN  /\ ~push_local_newer(row, remote_versions)
           /\ ~push_remote_newer(row, remote_versions)
           /\ todo' = todo \ {row.id}
    /\ UNCHANGED <<storeVars, remoteVars, clock, pc, pass, result,
                   remote_versions, cur, histVars, quietVars>>

\* new_version = zot.last_modified_version(); update_last_sync(conn, new_version)
PushFinish ==
    /\ pc = "push_loop"
    /\ UNCHANGED otherVars
    /\ todo = {}
    /\ sync_meta' = record_sync(sync_meta, zot_last_modified_version, clock)
    /\ libRead' = zot_last_modified_version
    /\ pc' = "done"
    /\ result' = "ok"
    /\ UNCHANGED <<items, remoteVars, clock, pass, remote_versions, todo, cur,
                   pre, metaPre, since, fetched, writes, quietVars>>

(* ------------------------- failures and return ------------------------- *)

\* RemoteUnavailable as it would be had update_last_sync stood in a finally
\* clause of the pass.
RemoteUnavailable_records ==
    /\ pc \in {"pull_loop", "push_loop", "push_refetch"}
    /\ UNCHANGED otherVars
    /\ pc' = "done"
    /\ result' = "failed"
    /\ sync_meta' = record_sync(sync_meta, zot_last_modified_version, clock)
    /\ UNCHANGED <<items, remoteVars, clock, pass, remote_versions, todo,
                   cur, histVars, quietVars>>

\* The next remote call of the running pass raises (the network is down):
\* neither pass catches anything, so the exception ends the pass.
RemoteUnavailable ==
    /\ pc \in {"pull_loop", "push_loop", "push_refetch"}
    /\ UNCHANGED otherVars
    /\ pc' = "done"
    /\ result' = "failed"
    /\ UNCHANGED <<storeVars, remoteVars, clock, pass, remote_versions, todo,
                   cur, histVars, quietVars>>

\* The first remote call of a pass (zot.item_versions) raises.
StartUnavailable ==
    /\ pc = "idle"
    /\ UNCHANGED otherVars
    /\ clock < MaxClock
    /\ clock' = clock + 1
    /\ \E p \in {"pull", "push"} : pass' = p
    /\ pc' = "done"
    /\ result' = "failed"
    /\ remote_versions' = EmptyMap
    /\ todo' = {}
    /\ pre' = items
    /\ metaPre' = sync_meta
    /\ since' = get_last_sync_version(sync_meta)
    /\ fetched' = EmptyMap
    /\ writes' = {}
    /\ libRead' = NULL
    /\ quiet' = FALSE
    /\ second' = FALSE
    /\ UNCHANGED <<storeVars, remoteVars, cur>>

\* The pass returns to its caller (or its exception reaches the caller).
Return ==
    /\ pc = "done"
    /\ UNCHANGED otherVars
    /\ pc' = "idle"
    /\ pass' = "none"
    /\ result' = "none"
    /\ remote_versions' = EmptyMap
    /\ todo' = {}
    /\ cur' = EmptyMap
    /\ pre' = {}
    /\ metaPre' = EmptyMap
    /\ since' = 0
    /\ fetched' = EmptyMap
    /\ writes' = {}
    /\ libRead' = NULL
    /\ second' = FALSE
    /\ UNCHANGED <<storeVars, remoteVars, clock, quiet>>

(* --------------------------- store helpers ---------------------------- *)

\* The item ids the callers name: those of rows that exist, or existed, or
\* never did.
ItemIds == 1..Cardinality(Keys)

TagNames == {"to-read"}
Contents == {"text"}
FileNames == {"a.pdf"}

\* What a store helper call leaves alone, and its place in the budget.
StoreCall(op, item_id) ==
    /\ pc = "idle"
    /\ mpc = "open"
    /\ storeOps < MaxStoreOps
    /\ storeOps' = storeOps + 1
    /\ lastOp' = [op |-> op, item_id |-> item_id]
    /\ UNCHANGED <<migVars, labVars, crudVars, sync_meta, remoteVars, clock, passVars, histVars,
                   quietVars>>

StoreAddItem ==
    \E key \in Keys, title \in DraftTitles :
        /\ StoreCall("add_item", NULL)
        /\ items' = add_item(items, key, title,
                             Dumps([key |-> key, version |-> 0, title |-> title]),
                             NULL, 0, NULL)
        /\ storePre' = NoTables
        /\ UNCHANGED depVars

StoreAddTag ==
    \E item_id \in ItemIds, tag \in TagNames :
        /\ StoreCall("add_tag", item_id)
        /\ tags' = add_tag(tags, items, item_id, tag)
        /\ storePre' = NoTables
        /\ UNCHANGED <<items, attachments, notes, fulltext>>

StoreAddAttachment ==
    \E item_id \in ItemIds, filename \in FileNames :
        /\ StoreCall("add_attachment", item_id)
        /\ attachments' = add_attachment(attachments, items, item_id, filename,
                                         filename)
        /\ storePre' = NoTables
        /\ UNCHANGED <<items, tags, notes, fulltext>>

StoreAddNote ==
    \E item_id \in ItemIds, content \in Contents :
        /\ StoreCall("add_note", item_id)
        /\ notes' = add_note(notes, items, item_id, content)
        /\ storePre' = NoTables
        /\ UNCHANGED <<items, tags, attachments, fulltext>>

StoreAddFulltext ==
    \E item_id \in ItemIds, content \in Contents :
        /\ StoreCall("add_fulltext", item_id)
        /\ fulltext' = add_fulltext(fulltext, item_id, content)
        /\ storePre' = NoTables
        /\ UNCHANGED <<items, tags, attachments, notes>>

StoreDeleteItem ==
    \E item_id \in ItemIds :
        /\ StoreCall("delete_item", item_id)
        /\ DeleteItemRows(item_id)
        /\ storePre' = [items |-> items, tags |-> tags,
                        attachments |-> attachments, notes |-> notes,
                        fulltext |-> fulltext]

StoreNext ==
    \/ StoreAddItem
    \/ StoreAddTag
    \/ StoreAddAttachment
    \/ StoreAddNote
    \/ StoreAddFulltext
    \/ StoreDeleteItem

SpecStore == Init /\ [][StoreNext]_vars

(* ------------- collections, templates, updates, sync metadata ---------- *)

CollKeys == {"C1", "C2"}
CollIds == 1..Cardinality(CollKeys)
CollNames == {"Inbox"}
NewCollNames == {"Archive"}
TemplateNames == {"default", "meeting"}
TemplateTexts == {"tpl"}
NewTexts == {"edited"}
\* The versions the callers record: a lower one can follow a higher one.
SyncVersions == {MaxVersion - 1, MaxVersion}

\* The field maps the callers pass to update_item: none, a title and a
\* version, a collection (or None), a key.
ItemFieldMaps ==
    {EmptyMap}
        \cup {[title |-> t, version |-> 1] : t \in Titles}
        \cup {[collection_id |-> c] : c \in CollIds \cup {NULL}}
        \cup {[key |-> k] : k \in Keys}

\* The field maps the callers pass to update_collection.
CollectionFieldMaps == {EmptyMap} \cup {[name |-> n] : n \in NewCollNames}

\* The tables these helpers read and write.
CrudTables ==
    [items |-> items, collections |-> collections, notes |-> notes,
     note_templates |-> note_templates, sync_meta |-> sync_meta]

\* What a call of one of these helpers leaves alone, and its place in the
\* budget.
CrudCall(call) ==
    /\ pc = "idle"
    /\ mpc = "open"
    /\ storeOps < MaxCrudOps
    /\ storeOps' = storeOps + 1
    /\ lastOp' = call
    /\ storePre' = CrudTables
    /\ UNCHANGED <<migVars, labVars, remoteVars, clock, passVars, histVars, quietVars,
                   tags, attachments, fulltext, remote_notes>>

\* add_item(conn, key, title, data, collection_id)
CrudAddItem ==
    \E key \in Keys, title \in DraftTitles, collection_id \in CollIds \cup {NULL} :
        LET rejected == item_rejected(items, collections, key, collection_id) IN
        /\ CrudCall([op |-> "add_item", key |-> key, collection_id |-> collection_id])
        /\ items' = IF rejected
                    THEN items
                    ELSE add_item(items, key, title,
                                  Dumps([key |-> key, version |-> 0, title |-> title]),
                                  collection_id, 0, NULL)
        /\ storeRet' = insert_return(items, rejected)
        /\ UNCHANGED <<collections, notes, note_templates, sync_meta>>

\* add_collection(conn, key, name)
CrudAddCollection ==
    \E key \in CollKeys, name \in CollNames :
        /\ CrudCall([op |-> "add_collection", key |-> key])
        /\ collections' = add_collection(collections, key, name)
        /\ storeRet' = insert_return(collections, HasKey(collections, key))
        /\ UNCHANGED <<items, notes, note_templates, sync_meta>>

\* add_note_template(conn, name, content)
CrudAddNoteTemplate ==
    \E name \in TemplateNames, content \in TemplateTexts :
        /\ CrudCall([op |-> "add_note_template", name |-> name])
        /\ note_templates' = add_note_template(note_templates, name, content)
        /\ storeRet' = insert_return(note_templates, HasName(note_templates, name))
        /\ UNCHANGED <<items, collections, notes, sync_meta>>

\* add_note(conn, item_id, content)
CrudAddNote ==
    \E item_id \in ItemIds, content \in Contents :
        /\ CrudCall([op |-> "add_note", item_id |-> item_id])
        /\ notes' = add_note(notes, items, item_id, content)
        /\ storeRet' = insert_return(notes, foreign_keys /\ ~HasId(items, item_id))
        /\ UNCHANGED <<items, collections, note_templates, sync_meta>>

\* update_item(conn, item_id, **fields)
CrudUpdateItem ==
    \E item_id \in ItemIds, fields \in ItemFieldMaps :
        LET rejected == /\ DOMAIN fields # {}
                        /\ update_item_rejected(items, collections, item_id, fields)
        IN
        /\ CrudCall([op |-> "update_item", id |-> item_id, fields |-> fields])
        /\ items' = IF rejected THEN items ELSE update_item(items, item_id, fields)
        /\ storeRet' = IF rejected THEN Raised(IntegrityError) ELSE Returned(None)
        /\ UNCHANGED <<collections, notes, note_templates, sync_meta>>

\* update_collection(conn, collection_id, **fields)
CrudUpdateCollection ==
    \E collection_id \in CollIds, fields \in CollectionFieldMaps :
        /\ CrudCall([op |-> "update_collection", id |-> collection_id,
                     fields |-> fields])
        /\ collections' = update_collection(collections, collection_id, fields)
        /\ storeRet' = Returned(None)
        /\ UNCHANGED <<items, notes, note_templates, sync_meta>>

\* update_note(conn, note_id, content)
CrudUpdateNote ==
    \E note_id \in ItemIds, content \in NewTexts :
        /\ CrudCall([op |-> "update_note", id |-> note_id,
                     fields |-> [content |-> content]])
        /\ notes' = update_note(notes, note_id, content)
        /\ storeRet' = Returned(None)
        /\ UNCHANGED <<items, collections, note_templates, sync_meta>>

\* update_note_template(conn, name, content)
CrudUpdateNoteTemplate ==
    \E name \in TemplateNames, content \in NewTexts :
        /\ CrudCall([op |-> "update_note_template", name |-> name,
                     fields |-> [content |-> content]])
        /\ note_templates' = update_note_template(note_templates, name, content)
        /\ storeRet' = Returned(None)
        /\ UNCHANGED <<items, collections, notes, sync_meta>>

\* delete_collection(conn, collection_id): both statements, and what the
\* second one does through the foreign key of items.
CrudDeleteCollection ==
    \E collection_id \in CollIds :
        /\ CrudCall([op |-> "delete_collection", id |-> collection_id])
        /\ items' = on_delete_set_null(null_collection_refs(items, collection_id),
                                       collections, collection_id)
        /\ collections' = delete_collection(collections, collection_id)
        /\ storeRet' = Returned(None)
        /\ UNCHANGED <<notes, note_templates, sync_meta>>

\* update_last_sync(conn, version); the budget counter stands for utcnow().
CrudRecordSync ==
    \E version \in SyncVersions :
        /\ CrudCall([op |-> "update_last_sync", version |-> version,
                     now |-> storeOps + 1])
        /\ sync_meta' = update_last_sync(sync_meta, version, storeOps + 1)
        /\ storeRet' = Returned(None)
        /\ UNCHANGED <<items, collections, notes, note_templates>>

CrudNext ==
    \/ CrudAddItem
    \/ CrudAddCollection
    \/ CrudAddNoteTemplate
    \/ CrudAddNote
    \/ CrudUpdateItem
    \/ CrudUpdateCollection
    \/ CrudUpdateNote
    \/ CrudUpdateNoteTemplate
    \/ CrudDeleteCollection
    \/ CrudRecordSync

SpecCrud == Init /\ [][CrudNext]_vars

(* ------------------------------ write_note ---------------------------- *)

\* The templates the callers store: an empty one, and one with a
\* replacement field.
NoteTemplates == {Blank, <<Lit("Summary: "), Field("summary")>>}

\* The values the callers supply.
NoteData == {EmptyMap, [summary |-> "a good paper"]}

\* How the remote library answers create_items: the note is created, the
\* response reports no success, or the call raises.
CreateOutcomes == {"success", "failed", "raises"}

\* The tables write_note reads and writes.
NoteTables ==
    [items |-> items, notes |-> notes, note_templates |-> note_templates,
     remote_notes |-> remote_notes]

\* What write_note and the helpers that prepare it leave alone, and their
\* place in the budget.
NoteCall(call) ==
    /\ pc = "idle"
    /\ mpc = "open"
    /\ storeOps < MaxNoteOps
    /\ storeOps' = storeOps + 1
    /\ lastOp' = call
    /\ storePre' = NoteTables
    /\ UNCHANGED <<migVars, labVars, remoteVars, clock, passVars, histVars, quietVars,
                   sync_meta, collections, tags, attachments, fulltext>>

\* add_item(conn, key, title, data): the local row of a target item.
NoteAddItem ==
    \E key \in Keys, title \in DraftTitles :
        /\ NoteCall([op |-> "add_item", key |-> key])
        /\ items' = add_item(items, key, title,
                             Dumps([key |-> key, version |-> 0, title |-> title]),
                             NULL, 0, NULL)
        /\ storeRet' = insert_return(items, HasKey(items, key))
        /\ UNCHANGED <<notes, note_templates, remote_notes>>

\* add_note_template(conn, name, content)
NoteAddTemplate ==
    \E name \in TemplateNames, content \in NoteTemplates :
        /\ NoteCall([op |-> "add_note_template", name |-> name])
        /\ note_templates' = add_note_template(note_templates, name, content)
        /\ storeRet' = insert_return(note_templates, HasName(note_templates, name))
        /\ UNCHANGED <<items, notes, remote_notes>>

\* write_note(conn, zot, parent_key, template_name, **data), with the
\* answers of the remote library to note_template() and create_items().
WriteNote ==
    \E parent_key \in Keys, template_name \in TemplateNames, data \in NoteData,
       default_available \in BOOLEAN, created \in CreateOutcomes :
        LET note == zot_note_template
            template == template_of(note_templates, template_name, note)
            rendered == [note EXCEPT !.note = format(template, data)]
            remote_after == zot_create_items(remote_notes, rendered, parent_key)
            success_keys == IF created = "success"
                            THEN {zot_next_note_key(remote_notes)}
                            ELSE {}
        IN
        /\ NoteCall([op |-> "write_note", parent_key |-> parent_key,
                     name |-> template_name, data |-> data,
                     default_available |-> default_available,
                     created |-> created])
        /\ UNCHANGED <<items, note_templates>>
        /\ IF ~default_available
           THEN \* zot.note_template() raises
                /\ storeRet' = Raised("RemoteError")
                /\ UNCHANGED <<notes, remote_notes>>
           ELSE IF format_raises(template, data)
           THEN \* template.format(**data) raises
                /\ storeRet' = Raised("KeyError")
                /\ UNCHANGED <<notes, remote_notes>>
           ELSE IF created = "raises"
           THEN \* zot.create_items(...) raises
                /\ storeRet' = Raised("RemoteError")
                /\ UNCHANGED <<notes, remote_notes>>
           ELSE /\ remote_notes' = IF created = "success"
                                   THEN remote_after
                                   ELSE remote_notes
                /\ notes' = write_note_local(notes, items, parent_key, rendered.note)
                /\ storeRet' = Returned(write_note_return(success_keys))

NoteNext ==
    \/ NoteAddItem
    \/ NoteAddTemplate
    \/ WriteNote

SpecNote == Init /\ [][NoteNext]_vars

(* ------------------------- lab_id.py: the runs ------------------------- *)

\* The identifiers the items and the callers bring: two small ones and the
\* largest of nine digits.
LabIds == {format_09d(1), format_09d(2), format_09d(10^LAB_ID_DIGITS - 1)}

\* The lines of the extra fields.
LabLines ==
    {OtherLine, LabelLine, LabLine(format_09d(10^LAB_ID_DIGITS))}
        \cup {LabLine(id) : id \in {format_09d(1), format_09d(2)}}
        \cup {DigitsLine(format_09d(1))}

\* The extra fields set_lab_id is applied to: up to two lines.
LabExtras == {<<>>} \cup {<<l>> : l \in LabLines}
                \cup {<<l, m>> : l \in LabLines, m \in LabLines}

\* The extra fields of the items ensure_lab_ids lists.
ListedExtras ==
    {<<>>, <<OtherLine>>} \cup {<<LabLine(id)>> : id \in LabIds}
        \cup {<<OtherLine, LabLine(format_09d(1))>>}

\* The orders zot.top() lists the items in.
Listings == {<<k1, k2>> : k1 \in Keys, k2 \in Keys} \ {<<k, k>> : k \in Keys}

\* The library and the registry (a call's pre-state).
LabTables == [library |-> library, lab_db |-> lab_db]

\* A library of the items, no registry file yet.
InitLabId ==
    /\ InitSync /\ InitOpened
    /\ collections = {} /\ note_templates = {} /\ remote_notes = {}
    /\ tags = {} /\ attachments = {} /\ notes = {} /\ fulltext = {}
    /\ storeOps = 0 /\ lastOp = NoOp /\ storePre = NoTables
    /\ storeRet = Returned(None)
    /\ library \in [Keys -> [extra : LabExtras]]
    /\ lab_db = EmptyMap

InitLab ==
    /\ InitSync /\ InitOpened
    /\ collections = {} /\ note_templates = {} /\ remote_notes = {}
    /\ tags = {} /\ attachments = {} /\ notes = {} /\ fulltext = {}
    /\ storeOps = 0 /\ lastOp = NoOp /\ storePre = NoTables
    /\ storeRet = Returned(None)
    /\ library \in [Keys -> [extra : ListedExtras]]
    /\ lab_db = EmptyMap

\* What a call of lab_id.py leaves alone, and the record of the call.
LabCall(call) ==
    /\ storeOps < MaxLabOps
    /\ storeOps' = storeOps + 1
    /\ lastOp' = call
    /\ storePre' = LabTables
    /\ UNCHANGED <<syncVars, migVars, depVars, collections, note_templates,
                   remote_notes>>

\* set_lab_id(item, lab_id) on an item of the library.
SetLabId ==
    \E key \in Keys, lab_id \in LabIds :
        /\ LabCall([op |-> "set_lab_id", key |-> key, lab_id |-> lab_id])
        /\ library' = [library EXCEPT ![key].extra = set_lab_id(@, lab_id)]
        /\ storeRet' = Returned(None)
        /\ UNCHANGED lab_db

\* ensure_lab_ids(zot, db_path): one run, the registry file written at its
\* end.
EnsureLabIds ==
    \E order \in Listings, fails \in SUBSET Keys :
        LET st == ensure_lab_ids(lab_db, library, order, fails) IN
        /\ LabCall([op |-> "ensure_lab_ids", order |-> order, fails |-> fails,
                    updates |-> st.updates])
        /\ library' = st.library
        /\ lab_db' = st.db
        /\ storeRet' = Returned([allocated |-> st.allocated,
                                 mismatches |-> st.mismatches])

\* A user of Zotero edits the extra field of an item.
EditExtra ==
    \E key \in Keys, extra \in ListedExtras :
        /\ LabCall([op |-> "edit", key |-> key])
        /\ library' = [library EXCEPT ![key].extra = extra]
        /\ storeRet' = Returned(None)
        /\ UNCHANGED lab_db

LabIdNext == SetLabId

SpecLabId == InitLabId /\ [][LabIdNext]_vars

LabNext == EnsureLabIds \/ EditExtra

SpecLab == InitLab /\ [][LabNext]_vars

(* --------------------------- pyzotero_academic --------------------------- *)

\* A "Citation Count: <n>" line of an extra field.
CitationLine(n) == [kind |-> "citation", count |-> n]

\* QualityController._normalize_date(date, 'YYYY-MM-DD') on the dates of
\* the items; "" stands for None (both fail `if normalized`).
normalize_date(date) ==
    CASE date = "March 5, 2020" -> "2020-03-05"
      [] date = "2020-03-05" -> "2020-03"
      [] date = "2020" -> "2020"
      [] OTHER -> ""

\* QualityController._title_case_name(name) on the names of the items.
title_case_name(name) ==
    CASE name = "smith" -> "Smith"
      [] OTHER -> name

\* QualityController._normalize_creator(creator)
normalize_creator(creator) ==
    [creator EXCEPT !.lastName = title_case_name(@)]

\* keyword.lower() in text, on the titles of the items.
keyword_in(keyword, data) ==
    keyword = "deep learning" /\ data.title = "Deep learning for proteins"

\* No change is proposed for the item, or the change of these fields is.
Skip == [outcome |-> "skipped"]
Error == [outcome |-> "error"]
Propose(fields, shown) == [outcome |-> "proposed", fields |-> fields, shown |-> shown]

\* data.copy() with the fields of the change set.
updated_data(data, fields) ==
    [f \in DOMAIN data |-> IF f \in DOMAIN fields THEN fields[f] ELSE data[f]]

\* MetadataEnricher.extract_doi(item): the DOI field of the items.
extract_doi(data) == data.DOI

\* MetadataEnricher._prepare_updates(item, metadata, fields_to_update) with
\* the default fields: the empty fields the metadata has a value for, and
\* the citation count appended to extra.
prepare_updates(data, metadata) ==
    LET fill == {f \in {"abstractNote", "date"} : data[f] = "" /\ metadata[f] # ""}
        lines == IF metadata.citationCount # None
                 THEN <<CitationLine(metadata.citationCount)>> ELSE <<>>
    IN [f \in fill \cup (IF lines # <<>> THEN {"extra"} ELSE {}) |->
           IF f = "extra" THEN data.extra \o lines ELSE metadata[f]]

\* The loop body of enrich_from_doi before the dry_run test: the item is
\* skipped without a DOI, without metadata and without updates, and a
\* metadata value that is no string raises in _prepare_updates.
propose_from_doi(data, metadata) ==
    IF extract_doi(data) = "" \/ metadata.source = "none" THEN Skip
    ELSE IF metadata.source = "malformed" THEN Error
    ELSE IF DOMAIN prepare_updates(data, metadata) = {} THEN Skip
    ELSE Propose(prepare_updates(data, metadata), prepare_updates(data, metadata))

\* re.sub(r'Citation Count:\s*\d+', ...) over the lines of extra.
sub_citation(extra, count) ==
    [i \in 1..Len(extra) |->
        IF extra[i].kind = "citation" THEN CitationLine(count) ELSE extra[i]]

\* The loop body of enrich_citation_counts before the dry_run test.
propose_citation_count(data, metadata) ==
    IF extract_doi(data) = "" THEN Skip
    ELSE IF metadata.source = "none" \/ metadata.citationCount = None THEN Skip
    ELSE LET count == metadata.citationCount
             new_extra ==
                 IF \E i \in 1..Len(data.extra) : data.extra[i].kind = "citation"
                 THEN sub_citation(data.extra, count)
                 ELSE Append(data.extra, CitationLine(count))
         IN Propose([extra |-> new_extra], [citation_count |-> count])

\* The loop body of auto_tag_by_keywords before the dry_run test: the tags
\* of the keyword map the item lacks and whose keyword is in its text.
propose_tags(data, keyword_map) ==
    LET suggested_tags ==
            {tag \in DOMAIN keyword_map :
                /\ tag \notin data.tags
                /\ \E keyword \in keyword_map[tag] : keyword_in(keyword, data)}
    IN IF suggested_tags = {} THEN Skip
       ELSE Propose([tags |-> data.tags \cup suggested_tags],
                    [suggested_tags |-> suggested_tags])

\* The loop body of normalize_author_names before the dry_run test.
propose_creators(data) ==
    LET normalized_creators ==
            [i \in 1..Len(data.creators) |-> normalize_creator(data.creators[i])]
    IN IF data.creators = <<>> \/ normalized_creators = data.creators THEN Skip
       ELSE Propose([creators |-> normalized_creators],
                    [old_creators |-> data.creators,
                     new_creators |-> normalized_creators])

\* The loop body of fix_date_formats before the dry_run test.
propose_date(data) ==
    IF data.date = "" THEN Skip
    ELSE IF normalize_date(data.date) # "" /\ normalize_date(data.date) # data.date
         THEN Propose([date |-> normalize_date(data.date)],
                      [old_date |-> data.date,
                       new_date |-> normalize_date(data.date)])
         ELSE Skip

\* What a function of pyzotero_academic proposes for an item.
proposal(fn, data, arg) ==
    CASE fn = "enrich_from_doi" -> propose_from_doi(data, arg)
      [] fn = "enrich_citation_counts" -> propose_citation_count(data, arg)
      [] fn = "auto_tag_by_keywords" -> propose_tags(data, arg)
      [] fn = "normalize_author_names" -> propose_creators(data)
      [] fn = "fix_date_formats" -> propose_date(data)

\* The functions of MetadataEnricher count a proposal of a dry run as done.
counts_dry_run(fn) == fn \in {"enrich_from_doi", "enrich_citation_counts"}

\* zot.update_item(updated_data) inside the try of the function: the call
\* is made; the item is written and counted unless the call raises.
update_via_api(st, key, fields, fails) ==
    IF key \in fails
    THEN [st EXCEPT !.calls = Append(@, key), !.errors = @ + 1]
    ELSE [st EXCEPT !.calls = Append(@, key),
                    !.count = @ + 1,
                    !.library = [@ EXCEPT ![key] = updated_data(@, fields)]]

\* The branch on dry_run as it would be if the flag were not tested.
apply_proposal_writes(st, fn, key, change, dry_run, fails) ==
    update_via_api(st, key, change.fields, fails)

\* The branch on dry_run of the five functions: the proposal is appended
\* to the report of a dry run, and written through zot.update_item
\* otherwise.
apply_proposal(st, fn, key, change, dry_run, fails) ==
    IF dry_run
    THEN [st EXCEPT !.proposals = Append(@, [item_key |-> key,
                                             change |-> change.shown]),
                    !.count = IF counts_dry_run(fn) THEN @ + 1 ELSE @]
    ELSE update_via_api(st, key, change.fields, fails)

\* The loop over the items of a function of pyzotero_academic, from item i.
RECURSIVE academic_loop(_, _, _, _, _, _, _)
academic_loop(st, fn, order, i, arg, dry_run, fails) ==
    IF i > Len(order) THEN st
    ELSE LET key == order[i]
             change == proposal(fn, st.library[key], arg)
         IN academic_loop(
                CASE change.outcome = "skipped" -> [st EXCEPT !.skipped = @ + 1]
                  [] change.outcome = "error" -> [st EXCEPT !.errors = @ + 1]
                  [] OTHER -> apply_proposal(st, fn, key, change, dry_run, fails),
                fn, order, i + 1, arg, dry_run, fails)

\* A function of pyzotero_academic called with the items of the library.
academic_run(fn, lib, order, arg, dry_run, fails) ==
    academic_loop([library |-> lib, calls |-> <<>>, proposals |-> <<>>,
                   count |-> 0, skipped |-> 0, errors |-> 0],
                  fn, order, 1, arg, dry_run, fails)

\* The items of the library.
AcademicItems ==
    {[title |-> "Deep learning for proteins", abstractNote |-> "",
      date |-> "March 5, 2020", DOI |-> "10.1/x",
      creators |-> <<[lastName |-> "smith"]>>, tags |-> {}, extra |-> <<>>],
     [title |-> "Poems", abstractNote |-> "verse",
      date |-> "2020", DOI |-> "",
      creators |-> <<[lastName |-> "Smith"]>>, tags |-> {"machine-learning"},
      extra |-> <<CitationLine(3)>>],
     [title |-> "Deep learning for proteins", abstractNote |-> "verse",
      date |-> "", DOI |-> "10.1/x",
      creators |-> <<>>, tags |-> {"machine-learning"},
      extra |-> <<OtherLine, CitationLine(3)>>],
     [title |-> "Poems", abstractNote |-> "",
      date |-> "undated", DOI |-> "10.1/x",
      creators |-> <<[lastName |-> "Smith"], [lastName |-> "smith"]>>,
      tags |-> {}, extra |-> <<OtherLine>>]}

\* What the external sources return for a DOI: nothing, a work with an
\* abstract, a date and a citation count, a work with a date only, and a
\* work with a value that is no string.
Metadata ==
    {[source |-> "none", abstractNote |-> "", date |-> "", citationCount |-> None],
     [source |-> "openalex", abstractNote |-> "an abstract", date |-> "2021-01-01",
      citationCount |-> 7],
     [source |-> "crossref", abstractNote |-> "", date |-> "2021-01-01",
      citationCount |-> None],
     [source |-> "malformed", abstractNote |-> "", date |-> "",
      citationCount |-> None]}

\* The keyword maps of auto_tag_by_keywords.
KeywordMaps == {[t \in {"machine-learning"} |-> {"deep learning", "neural network"}]}

\* The items zot.update_item raises for: none, or all (offline).
UpdateFailures == {{}, Keys}

\* The functions with a dry_run parameter and their arguments.
AcademicCalls ==
    {[fn |-> fn, arg |-> arg] :
        fn \in {"enrich_from_doi", "enrich_citation_counts"}, arg \in Metadata}
    \cup {[fn |-> "auto_tag_by_keywords", arg |-> arg] : arg \in KeywordMaps}
    \cup {[fn |-> fn, arg |-> None] :
            fn \in {"normalize_author_names", "fix_date_formats"}}

InitAcademic ==
    /\ InitSync /\ InitOpened
    /\ collections = {} /\ note_templates = {} /\ remote_notes = {}
    /\ tags = {} /\ attachments = {} /\ notes = {} /\ fulltext = {}
    /\ storeOps = 0 /\ lastOp = NoOp /\ storePre = NoTables
    /\ storeRet = Returned(None)
    /\ library \in [Keys -> AcademicItems]
    /\ lab_db = EmptyMap

\* One call of a function of pyzotero_academic on the items of the library.
AcademicCall ==
    \E call \in AcademicCalls, order \in Listings, dry_run \in BOOLEAN,
       fails \in UpdateFailures :
        LET st == academic_run(call.fn, library, order, call.arg, dry_run, fails) IN
        /\ storeOps < MaxAcademicOps
        /\ storeOps' = storeOps + 1
        /\ lastOp' = [op |-> call.fn, arg |-> call.arg, order |-> order,
                      dry_run |-> dry_run, fails |-> fails, calls |-> st.calls]
        /\ storePre' = LabTables
        /\ library' = st.library
        /\ storeRet' = Returned([proposals |-> st.proposals, count |-> st.count,
                                 skipped |-> st.skipped, errors |-> st.errors])
        /\ UNCHANGED <<syncVars, migVars, depVars, collections, note_templates,
                       remote_notes, lab_db>>

AcademicNext == AcademicCall

SpecAcademic == InitAcademic /\ [][AcademicNext]_vars

(* ----------------------------- init_db -------------------------------- *)

\* init_db(path) on a file below SCHEMA_VERSION: migrate(conn, current, ...)
OpenMigrate ==
    /\ mpc = "closed"
    /\ opens < MaxOpens
    /\ needs_migrate(user_version)
    /\ opens' = opens + 1
    /\ mpc' = "migrating"
    /\ mver' = first_version(user_version)
    /\ mstmt' = 1
    /\ started' = <<first_version(user_version)>>
    /\ markerAtOpen' = user_version
    /\ schemaAtOpen' = schema
    /\ raised' = "none"
    /\ UNCHANGED <<nonMigVars, user_version, schema, registry, applied, lastFailed>>

\* init_db(path) on a file that is not below SCHEMA_VERSION: return conn.
OpenCurrent ==
    /\ mpc = "closed"
    /\ opens < MaxOpens
    /\ ~needs_migrate(user_version)
    /\ opens' = opens + 1
    /\ mpc' = "open"
    /\ started' = <<>>
    /\ markerAtOpen' = user_version
    /\ schemaAtOpen' = schema
    /\ raised' = "none"
    /\ UNCHANGED <<nonMigVars, user_version, schema, registry, mver, mstmt, applied,
                   lastFailed>>

\* MigrationGap as it would be had migrate gone on to the next version.
MigrationGap_skips ==
    /\ mpc = "migrating"
    /\ mstmt = 1
    /\ mver \notin registry
    /\ IF mver < SCHEMA_VERSION
       THEN /\ mver' = mver + 1
            /\ started' = Append(started, mver + 1)
            /\ UNCHANGED mpc
       ELSE /\ mpc' = "open"
            /\ UNCHANGED <<mver, started>>
    /\ UNCHANGED <<nonMigVars, user_version, schema, registry, mstmt, opens,
                   applied, markerAtOpen, schemaAtOpen, lastFailed, raised>>

\* func = MIGRATIONS.get(version); if func is None: raise RuntimeError(...)
MigrationGap ==
    /\ mpc = "migrating"
    /\ mstmt = 1
    /\ mver \notin registry
    /\ mpc' = "failed"
    /\ raised' = "RuntimeError: No migration available"
    /\ UNCHANGED <<nonMigVars, user_version, schema, registry, mver, mstmt, opens,
                   applied, started, markerAtOpen, schemaAtOpen, lastFailed>>

\* One statement of func(conn) runs; sqlite3 commits it on its own.
MigrateStmt ==
    /\ mpc = "migrating"
    /\ mver \in registry
    /\ mstmt <= Len(MIGRATIONS[mver])
    /\ ~stmt_fails(schema, MIGRATIONS[mver][mstmt])
    /\ schema' = stmt_run(schema, MIGRATIONS[mver][mstmt])
    /\ mstmt' = mstmt + 1
    /\ UNCHANGED <<nonMigVars, user_version, registry, mpc, mver, opens, applied,
                   started, markerAtOpen, schemaAtOpen, lastFailed, raised>>

\* One statement of func(conn) raises sqlite3.OperationalError: the table or
\* the column it creates is there already.
MigrateStmtFails ==
    /\ mpc = "migrating"
    /\ mver \in registry
    /\ mstmt <= Len(MIGRATIONS[mver])
    /\ stmt_fails(schema, MIGRATIONS[mver][mstmt])
    /\ mpc' = "failed"
    /\ raised' = "OperationalError"
    /\ UNCHANGED <<nonMigVars, user_version, schema, registry, mver, mstmt, opens,
                   applied, started, markerAtOpen, schemaAtOpen, lastFailed>>

\* MigrateFault as it would be had the marker been written before func(conn).
MigrateFault_marks ==
    /\ mpc = "migrating"
    /\ mver \in registry
    /\ mpc' = "failed"
    /\ raised' = "OperationalError"
    /\ user_version' = mver
    /\ UNCHANGED <<nonMigVars, schema, registry, mver, mstmt, opens,
                   applied, started, markerAtOpen, schemaAtOpen, lastFailed>>

\* A fault of the engine (disk full, I/O error, locked file) makes the next
\* statement of func(conn), or the PRAGMA that follows it, raise; migrate
\* catches nothing.
MigrateFault ==
    /\ mpc = "migrating"
    /\ mver \in registry
    /\ mpc' = "failed"
    /\ raised' = "OperationalError"
    /\ UNCHANGED <<nonMigVars, user_version, schema, registry, mver, mstmt, opens,
                   applied, started, markerAtOpen, schemaAtOpen, lastFailed>>

\* func(conn) has returned: PRAGMA user_version = {version}; conn.commit();
\* then the next version of the range, or the return of init_db.
MigrateMark ==
    /\ mpc = "migrating"
    /\ mver \in registry
    /\ mstmt = Len(MIGRATIONS[mver]) + 1
    /\ user_version' = marker_of(mver, SCHEMA_VERSION)
    /\ applied' = Append(applied, mver)
    /\ IF mver < SCHEMA_VERSION
       THEN /\ mver' = mver + 1
            /\ mstmt' = 1
            /\ started' = Append(started, mver + 1)
            /\ UNCHANGED mpc
       ELSE /\ mpc' = "open"
            /\ UNCHANGED <<mver, mstmt, started>>
    /\ UNCHANGED <<nonMigVars, schema, registry, opens, markerAtOpen, schemaAtOpen,
                   lastFailed, raised>>

\* The connection is closed, or the exception of init_db has reached the
\* caller: the file can be opened again. lastFailed remembers the migration
\* the call failed in, 0 if it returned a connection.
Close ==
    /\ mpc \in {"open", "failed"}
    /\ mpc' = "closed"
    /\ lastFailed' = IF mpc = "failed" THEN mver ELSE 0
    /\ UNCHANGED <<nonMigVars, user_version, schema, registry, mver, mstmt, opens,
                   applied, started, markerAtOpen, schemaAtOpen, raised>>

MigNext ==
    \/ OpenMigrate
    \/ OpenCurrent
    \/ MigrationGap
    \/ MigrateStmt
    \/ MigrateStmtFails
    \/ MigrateFault
    \/ MigrateMark
    \/ Close

MigInit == InitSync /\ InitNewFile /\ InitStore

SpecMigrate == MigInit /\ [][MigNext]_vars

\* The objects the migrations up to `version` create, and for a version
\* above SCHEMA_VERSION a table of the newer build that wrote the file.
schema_at(version) ==
    UNION {{MIGRATIONS[n][i].obj : i \in 1..Len(MIGRATIONS[n])} :
              n \in {m \in DOMAIN MIGRATIONS : m <= version}}
        \cup (IF version > SCHEMA_VERSION THEN {"future"} ELSE {})

\* A file nobody has open, left by an earlier run of this build at any of
\* its versions, or by a newer build whose target is the next version.
InitAnyFile ==
    /\ user_version \in 0..(SCHEMA_VERSION + 1)
    /\ schema = schema_at(user_version)
    /\ registry \in Registries
    /\ mpc = "closed"
    /\ mver = 0
    /\ mstmt = 0
    /\ opens = 0
    /\ applied = <<>>
    /\ started = <<>>
    /\ markerAtOpen = user_version
    /\ schemaAtOpen = schema
    /\ lastFailed = 0
    /\ raised = "none"

OpenInit == InitSync /\ InitAnyFile /\ InitStore

SpecOpen == OpenInit /\ [][MigNext]_vars

Next ==
    \/ AppAddItem
    \/ AppUpdateItem
    \/ AppDeleteItem
    \/ RemoteWrite
    \/ PullStart
    \/ PullItem
    \/ PullFinish
    \/ PushStart
    \/ PushWrite
    \/ PushConflict
    \/ PushRefetch
    \/ PushOverwrite
    \/ PushSkip
    \/ PushFinish
    \/ RemoteUnavailable
    \/ StartUnavailable
    \/ Return

Spec == Init /\ [][Next]_vars

\* Passes that all run to their end, with the callers adding and editing
\* items and other writers changing the remote: no remote call raises and no
\* local row is deleted.
PassesNext ==
    \/ AppAddItem
    \/ AppUpdateItem
    \/ RemoteWrite
    \/ PullStart
    \/ PullItem
    \/ PullFinish
    \/ PushStart
    \/ PushWrite
    \/ PushRefetch
    \/ PushOverwrite
    \/ PushSkip
    \/ PushFinish
    \/ Return

SpecPasses == Init /\ [][PassesNext]_vars

(* ------------------------------ claims -------------------------------- *)

\* The pass that just ended without an exception.
PullDone == pc = "done" /\ pass = "pull" /\ result = "ok"
PushDone == pc = "done" /\ pass = "push" /\ result = "ok"

\* The changed keys of a pull whose local row was older than the remote.
OlderKeys ==
    {k \in DOMAIN remote_versions :
        HasKey(pre, k) /\ RowOfKey(pre, k).version < remote_versions[k]}

\* The changed keys of a pull that had no local row.
MissingKeys == {k \in DOMAIN remote_versions : ~HasKey(pre, k)}

\* The changed keys of a pull whose local row was at or above the remote.
CurrentKeys ==
    {k \in DOMAIN remote_versions :
        HasKey(pre, k) /\ RowOfKey(pre, k).version >= remote_versions[k]}

RowsOfKey(rows, key) == {r \in rows : r.key = key}

\* C1: after a pull that ended without a failure, every changed key whose
\* local row had a version below the remote version has a row with the remote
\* version and with the title and data of the item fetchItem returned.
C1_PullOverwritesOlderRows ==
    PullDone =>
        \A k \in OlderKeys :
            /\ HasKey(items, k)
            /\ k \in DOMAIN fetched
            /\ RowOfKey(items, k).version = remote_versions[k]
            /\ RowOfKey(items, k).title = item_title(fetched[k])
            /\ RowOfKey(items, k).data = Dumps(fetched[k])

\* A pull has overwritten an older row and changed its title.
C1_Witness ==
    /\ PullDone
    /\ \E k \in OlderKeys :
        /\ RowOfKey(items, k).version > RowOfKey(pre, k).version
        /\ RowOfKey(items, k).title # RowOfKey(pre, k).title

\* C2: after a pull that ended without a failure, every changed key that had
\* no local row has exactly one row, with the version the change map reported
\* and the title and data of the item fetchItem returned.
C2_PullInsertsMissingRows ==
    PullDone =>
        \A k \in MissingKeys :
            /\ Cardinality(RowsOfKey(items, k)) = 1
            /\ k \in DOMAIN fetched
            /\ RowOfKey(items, k).version = remote_versions[k]
            /\ RowOfKey(items, k).title = item_title(fetched[k])
            /\ RowOfKey(items, k).data = Dumps(fetched[k])

\* A pull into an empty store has inserted the one changed key, whose version
\* is not the first.
C2_Witness ==
    /\ PullDone
    /\ pre = {}
    /\ \E k \in Keys :
        /\ DOMAIN remote_versions = {k}
        /\ remote_versions[k] > 1
        /\ Cardinality(items) = 1

\* C3: the items table never holds two rows with the same key.
C3_OneRowPerKey ==
    \A r1 \in items : \A r2 \in items : r1.key = r2.key => r1 = r2

\* A pull has visited a key that already had a row.
C3_Witness ==
    /\ PullDone
    /\ \E k \in DOMAIN fetched : HasKey(pre, k) /\ HasKey(items, k)

\* C4: during a pull, the row of a changed key whose local version is at or
\* above the remote version stays as it was: title, data, version, synced_at.
C4_PullSkipsCurrentRows ==
    pass = "pull" => \A k \in CurrentKeys : RowOfKey(pre, k) \in items

\* A pull has visited a key whose row was already at the remote version.
C4_Witness ==
    /\ PullDone
    /\ \E k \in CurrentKeys :
        k \in DOMAIN fetched /\ RowOfKey(pre, k).version = remote_versions[k]

\* C5: during a pull no row's version decreases, and every row's version is
\* the one it had before the pull or the one the change map reports for it.
C5_PullVersionsMonotone ==
    pass = "pull" =>
        /\ \A p \in pre :
            HasId(items, p.id) /\ RowOfId(items, p.id).version >= p.version
        /\ \A r \in items :
            \/ HasId(pre, r.id) /\ RowOfId(pre, r.id).version = r.version
            \/ r.key \in DOMAIN remote_versions
                /\ r.version = remote_versions[r.key]

\* A pull has met a row above the remote version and left its version alone,
\* and has raised the version of another row.
C5_Witness ==
    /\ PullDone
    /\ \E k \in CurrentKeys :
        k \in DOMAIN fetched /\ RowOfKey(pre, k).version > remote_versions[k]
    /\ \E k \in OlderKeys : TRUE

\* C6: when a pull or a push ends without a failure, sync metadata's
\* library_version is the remote's library version counter as read after the
\* last item was processed.
C6_PassRecordsLibraryVersion ==
    (PullDone \/ PushDone) =>
        /\ "library_version" \in DOMAIN sync_meta
        /\ get_last_sync_version(sync_meta) = libRead
        /\ libRead = libVersion

\* A pass that changed no row has recorded a library version above the
\* cursor it started with, and above every item version it listed.
C6_Witness ==
    /\ PullDone \/ PushDone
    /\ items = pre
    /\ get_last_sync_version(metaPre) < libVersion
    /\ \A k \in DOMAIN remote_versions : remote_versions[k] < libVersion

\* C7: a pull that follows a pull, with no change of the remote since the
\* first one ended, changes no row of the items table, and it rewrites
\* last_sync with a later time.
C7_SecondPullIdempotent ==
    (PullDone /\ second) =>
        /\ items = pre
        /\ "last_sync" \in DOMAIN metaPre
        /\ "last_sync" \in DOMAIN sync_meta
        /\ sync_meta["last_sync"] > metaPre["last_sync"]
        /\ sync_meta["library_version"] = metaPre["library_version"]

\* The second of two pulls has ended, and the first one had stored a row.
C7_Witness ==
    /\ PullDone
    /\ second
    /\ \E r \in items : r.synced_at # NULL /\ r.synced_at < clock

\* C8: after a push that ended without a failure, every row whose version was
\* above the remote version has been written to the remote, and holds the
\* version and the data of the item the remote returned for that write.
C8_PushStoresReturnedVersion ==
    PushDone =>
        \A p \in pre :
            p.version > Get(remote_versions, p.key, 0) =>
                /\ HasId(items, p.id)
                /\ p.key \in DOMAIN fetched
                /\ \E w \in writes :
                    w.key = p.key /\ fetched[p.key].version >= w.assigned
                /\ RowOfId(items, p.id).version = fetched[p.key].version
                /\ RowOfId(items, p.id).data = Dumps(fetched[p.key])

\* A push has written a row and the row now holds the version the server
\* assigned, which is not the version the row had.
C8_Witness ==
    /\ PushDone
    /\ \E w \in writes :
        /\ RowOfKey(items, w.key).version = w.assigned
        /\ RowOfKey(pre, w.key).version # w.assigned

\* C9: every write of a push declares, as the expected version, the version
\* the full remote version map reported for the key (0 without a report),
\* which is below the local version; and when the push has ended the row
\* holds the version the server answered with, not the one it had.
C9_PushDeclaresRemoteVersion ==
    pass = "push" =>
        \A w \in writes :
            /\ w.expected = Get(remote_versions, w.key, 0)
            /\ w.sent.version = w.expected
            /\ HasKey(pre, w.key)
            /\ w.expected < RowOfKey(pre, w.key).version
            /\ w.assigned > w.expected
            /\ PushDone => RowOfKey(items, w.key).version >= w.assigned

\* Local version one above the remote version, and the server answers with
\* the version two above it: the row ends with the server's version.
C9_Witness ==
    /\ PushDone
    /\ \E w \in writes :
        /\ w.key \in DOMAIN remote_versions
        /\ RowOfKey(pre, w.key).version = w.expected + 1
        /\ w.assigned = w.expected + 2
        /\ RowOfKey(items, w.key).version = w.assigned

\* C10: during a push, a row whose version equals the remote version reported
\* for its key is left as it was, and no write is issued for its key.
C10_PushSkipsEqualRows ==
    pass = "push" =>
        \A p \in pre :
            p.version = Get(remote_versions, p.key, 0) =>
                /\ p \in items
                /\ \A w \in writes : w.key # p.key

\* A push has ended that met a row at the version the remote reported for
\* it, and that changed another row.
C10_Witness ==
    /\ PushDone
    /\ items # pre
    /\ \E p \in pre :
        p.key \in DOMAIN remote_versions /\ p.version = remote_versions[p.key]

\* The pass that just ended with an exception.
PassFailed == pc = "done" /\ result = "failed"

\* The rows of a push whose key the remote reported with a higher version.
StaleRows ==
    {p \in pre : Get(remote_versions, p.key, 0) > p.version}

\* The rows of a push whose key the remote version map did not report.
UnknownRows == {p \in pre : p.key \notin DOMAIN remote_versions}

\* C11 (as claimed): after a push that ended without a failure, every row
\* whose remote version was above its local version has had no write, and
\* holds the title, the data and the version of the fetched remote item.
C11_PushOverwritesLikePull ==
    PushDone =>
        \A p \in StaleRows :
            /\ \A w \in writes : w.key # p.key
            /\ p.key \in DOMAIN fetched
            /\ RowOfId(items, p.id).version = fetched[p.key].version
            /\ RowOfId(items, p.id).data = Dumps(fetched[p.key])
            /\ RowOfId(items, p.id).title = item_title(fetched[p.key])

\* C12: a push treats a row whose key the remote version map does not report
\* as having remote version 0: a row with a version above 0 is written with
\* expected version 0, and a row with version 0 (the default of add_item) is
\* left as it was and never written.
C12_PushUnknownKeyIsVersionZero ==
    pass = "push" =>
        /\ \A p \in UnknownRows :
            p.version = 0 => p \in items /\ \A w \in writes : w.key # p.key
        /\ \A w \in writes :
            w.key \notin DOMAIN remote_versions => w.expected = 0
        /\ PushDone =>
            \A p \in UnknownRows :
                p.version > 0 =>
                    \E w \in writes : w.key = p.key /\ w.expected = 0

\* A push has ended that met a row unknown to the remote with a version
\* above 0, and has written it with expected version 0.
C12_Witness ==
    /\ PushDone
    /\ \E p \in UnknownRows :
        p.version > 0 /\ \E w \in writes : w.key = p.key /\ w.expected = 0

\* C13: a pass that a failing remote call ended has left sync metadata as it
\* was: library_version and last_sync have the values they had when the pass
\* started, and the next pull lists with the same since cursor.
C13_FailedPassKeepsSyncMeta ==
    PassFailed =>
        /\ sync_meta = metaPre
        /\ get_last_sync_version(sync_meta) = get_last_sync_version(metaPre)

\* A pass has failed after it changed a row, with sync metadata recorded by
\* an earlier pass and a remote library version above the recorded one.
C13_Witness ==
    /\ PassFailed
    /\ items # pre
    /\ "library_version" \in DOMAIN sync_meta
    /\ get_last_sync_version(sync_meta) < libVersion

\* C14 (as claimed): a failure on one item does not end the pass: when the
\* pass ends every item has been visited, and a pass in which an item failed
\* has not advanced sync metadata.
C14_ItemFailureKeepsPassGoing ==
    pc = "done" =>
        /\ todo = {}
        /\ result = "failed" => sync_meta = metaPre

\* C15 (as claimed): a pass that ends returns the counts of applied, skipped
\* and failed items, and the counts add up to the items it considered.
C15_PassReturnsCounts ==
    /\ PullDone =>
        /\ pull_changes_return # NULL
        /\ pull_changes_return.applied + pull_changes_return.skipped
            + pull_changes_return.failed = Cardinality(DOMAIN remote_versions)
    /\ PushDone =>
        /\ push_changes_return # NULL
        /\ push_changes_return.applied + push_changes_return.skipped
            + push_changes_return.failed = Cardinality(pre)


(* --------------------------- schema manager --------------------------- *)

\* The sequence <<lo, lo + 1, ..., lo + n - 1>> is what `seq` is.
CountsFrom(seq, lo) == \A i \in 1..Len(seq) : seq[i] = lo + i - 1

\* C16: an open visits the versions in increasing order, one at a time,
\* starting at marker + 1; the marker is the number of the last migration
\* that completed, so it never skips a number and is never ahead of a
\* migration that has not completed, and the next migration starts only with
\* the marker at the number before it.
C16_MigrationsInOrder ==
    /\ CountsFrom(started, markerAtOpen + 1)
    /\ CountsFrom(applied, 1)
    /\ user_version = Len(applied)
    /\ mpc = "migrating" => user_version = mver - 1

\* The third migration is running after the first two completed.
C16_Witness ==
    /\ mpc = "migrating"
    /\ mver = 3
    /\ applied = <<1, 2>>
    /\ started = <<1, 2, 3>>

\* The required versions MIGRATIONS has no function for.
Gaps == (1..SCHEMA_VERSION) \ registry

\* C17: with a required version missing from the registry, the open fails
\* with the "No migration available" error when it reaches the gap: the
\* marker stays below the gap, at the version before it once the open has
\* failed there, no version at or above the gap is applied, and no
\* connection is returned.
C17_GapIsFatal ==
    \A g \in Gaps :
        /\ user_version < g
        /\ \A i \in 1..Len(applied) : applied[i] < g
        /\ \A i \in 1..Len(started) : started[i] <= g
        /\ mpc # "open"
        /\ (mpc = "failed" /\ mver = g) =>
              /\ raised = "RuntimeError: No migration available"
              /\ user_version = g - 1

\* An open has failed at the gap at version 2, after migration 1.
C17_Witness ==
    /\ Gaps = {2}
    /\ mpc = "failed"
    /\ mver = 2
    /\ raised = "RuntimeError: No migration available"
    /\ applied = <<1>>

\* C18: an open that fails in migration n leaves the marker at n - 1, and
\* the next open starts with migration n again.
C18_FailedMigrationRetried ==
    /\ mpc = "failed" => user_version = mver - 1
    /\ (lastFailed # 0 /\ mpc # "closed") =>
          /\ Len(started) >= 1
          /\ started[1] = lastFailed

\* Migration 2 failed after its first ALTER TABLE, and the next open is
\* running migration 2.
C18_Witness ==
    /\ lastFailed = 2
    /\ mpc = "migrating"
    /\ mver = 2
    /\ "items.version" \in schemaAtOpen
    /\ "sync_meta" \notin schemaAtOpen

\* C19: an open of a new file that returns a connection has applied 1, 2, 3
\* once each, in that order, and left the marker at 3 and the schema of the
\* three migrations; an open of a file at the target version visits no
\* migration and leaves the schema and the marker as they were.
C19_OpenNewAndCurrent ==
    /\ (mpc = "open" /\ markerAtOpen = 0 /\ schemaAtOpen = {}) =>
          /\ started = <<1, 2, 3>>
          /\ applied = <<1, 2, 3>>
          /\ user_version = SCHEMA_VERSION
          /\ schema = FullSchema
    /\ (mpc = "open" /\ markerAtOpen = SCHEMA_VERSION) =>
          /\ started = <<>>
          /\ applied = <<1, 2, 3>>
          /\ schema = schemaAtOpen
          /\ user_version = markerAtOpen

\* The second open of a file the first open has migrated from new.
C19_Witness ==
    /\ mpc = "open"
    /\ opens = 2
    /\ markerAtOpen = SCHEMA_VERSION
    /\ schemaAtOpen = FullSchema
    /\ applied = <<1, 2, 3>>


(* ------------------------------ the store ----------------------------- *)

\* The rows of a table that refer to the item.
RowsOfItem(rows, item_id) == {r \in rows : r.item_id = item_id}

\* C20: after delete_item(i) no tag, attachment, note or full-text entry
\* refers to i, the item row i is gone, and every row of the five tables that
\* belongs to another item is still there, as it was.
C20_DeleteItemRemovesDependents ==
    lastOp.op = "delete_item" =>
        LET i == lastOp.item_id IN
        /\ ~HasId(items, i)
        /\ RowsOfItem(tags, i) = {}
        /\ RowsOfItem(attachments, i) = {}
        /\ RowsOfItem(notes, i) = {}
        /\ RowsOfItem(fulltext, i) = {}
        /\ items = {r \in storePre.items : r.id # i}
        /\ tags = storePre.tags \ RowsOfItem(storePre.tags, i)
        /\ attachments = storePre.attachments \ RowsOfItem(storePre.attachments, i)
        /\ notes = storePre.notes \ RowsOfItem(storePre.notes, i)
        /\ fulltext = storePre.fulltext \ RowsOfItem(storePre.fulltext, i)

\* An item with a tag and a full-text entry has been deleted, and the note
\* of another item is still there.
C20_Witness ==
    /\ lastOp.op = "delete_item"
    /\ HasId(storePre.items, lastOp.item_id)
    /\ RowsOfItem(storePre.tags, lastOp.item_id) # {}
    /\ RowsOfItem(storePre.fulltext, lastOp.item_id) # {}
    /\ \E n \in notes : n.item_id # lastOp.item_id


(* ------------- collections, templates, updates, sync metadata ---------- *)

\* The last helper call left every table as it was.
StoreUnchanged == CrudTables = storePre

\* The tables other than `table` are as they were before the last call.
OthersUnchanged(table) ==
    \A t \in DOMAIN storePre : t # table => CrudTables[t] = storePre[t]

\* C21: delete_collection(c) deletes no item; the items that referred to c
\* have a null collection reference and are otherwise as they were; every
\* other item is unchanged; afterwards every collection reference of an item
\* names a row of collections.
C21_DeleteCollectionNullsRefs ==
    lastOp.op = "delete_collection" =>
        /\ Cardinality(items) = Cardinality(storePre.items)
        /\ \A p \in storePre.items :
              /\ HasId(items, p.id)
              /\ RowOfId(items, p.id) =
                    IF p.collection_id = lastOp.id
                    THEN [id |-> p.id, key |-> p.key, title |-> p.title,
                          collection_id |-> NULL, data |-> p.data,
                          version |-> p.version, synced_at |-> p.synced_at]
                    ELSE p
        /\ ~HasId(collections, lastOp.id)
        /\ \A r \in items :
              r.collection_id = NULL \/ HasId(collections, r.collection_id)

\* A collection with an item has been deleted while an item of another
\* collection exists.
C21_Witness ==
    /\ lastOp.op = "delete_collection"
    /\ \E p \in storePre.items : p.collection_id = lastOp.id
    /\ \E q \in storePre.items : q.collection_id \notin {lastOp.id, NULL}

\* The last call was one of the three adds with a unique column.
AddCalled == lastOp.op \in {"add_item", "add_collection", "add_note_template"}

\* The table the last add call inserts into.
AddTable ==
    CASE lastOp.op = "add_item" -> "items"
      [] lastOp.op = "add_collection" -> "collections"
      [] lastOp.op = "add_note_template" -> "note_templates"

\* The last add call named a key, or a template name, that a row had.
AddDuplicate ==
    \/ lastOp.op = "add_item" /\ HasKey(storePre.items, lastOp.key)
    \/ lastOp.op = "add_collection" /\ HasKey(storePre.collections, lastOp.key)
    \/ lastOp.op = "add_note_template" /\ HasName(storePre.note_templates, lastOp.name)

\* The last add_item call named a collection that no row of collections has.
AddDangling ==
    /\ lastOp.op = "add_item"
    /\ lastOp.collection_id # NULL
    /\ ~HasId(storePre.collections, lastOp.collection_id)

\* The last add call failed with the constraint error and changed nothing.
AddFailed == storeRet = Raised(IntegrityError) /\ StoreUnchanged

\* The last add call inserted exactly one row, with an id no row had, and
\* returned that id.
AddInserted ==
    /\ OthersUnchanged(AddTable)
    /\ \E r \in CrudTables[AddTable] :
          /\ r \notin storePre[AddTable]
          /\ ~HasId(storePre[AddTable], r.id)
          /\ CrudTables[AddTable] = storePre[AddTable] \cup {r}
          /\ storeRet = Returned(r.id)

\* C22 as stated: an add with an existing key or template name fails with
\* the constraint error and changes nothing; every other add inserts exactly
\* one row and returns its id.
C22_AddFailsOnlyOnDuplicate ==
    AddCalled => IF AddDuplicate THEN AddFailed ELSE AddInserted

\* C22, amended: an add with an existing key or template name, and an
\* add_item that names a collection that does not exist, fail with the
\* constraint error and change nothing; every other add inserts exactly one
\* row and returns its id.
C22_AddFailsOnConstraint ==
    AddCalled => IF AddDuplicate \/ AddDangling THEN AddFailed ELSE AddInserted

\* add_item has been rejected for a key that a row of a non-empty table has.
C22_Witness ==
    /\ lastOp.op = "add_item"
    /\ AddDuplicate
    /\ ~AddDangling
    /\ storePre.collections # {}
    /\ storeRet = Raised(IntegrityError)

\* The last call was one of the four updates.
UpdateCalled ==
    lastOp.op \in {"update_item", "update_collection", "update_note",
                   "update_note_template"}

\* The table the last update call writes.
UpdateTable ==
    CASE lastOp.op = "update_item" -> "items"
      [] lastOp.op = "update_collection" -> "collections"
      [] lastOp.op = "update_note" -> "notes"
      [] lastOp.op = "update_note_template" -> "note_templates"

\* The row is the one the last update call addressed.
Addressed(r) ==
    IF lastOp.op = "update_note_template" THEN r.name = lastOp.name
    ELSE r.id = lastOp.id

C24_SyncMetaAccessors ==
    /\ DOMAIN sync_meta \in {{}, {"library_version", "last_sync"}}
    /\ DOMAIN sync_meta = {} => get_last_sync_version(sync_meta) = 0
    /\ lastOp.op = "update_last_sync" =>
          /\ get_last_sync_version(sync_meta) = lastOp.version
          /\ sync_meta["last_sync"] = lastOp.now
    /\ (lastOp.op # "update_last_sync" /\ lastOp.op # "none") =>
          sync_meta = storePre.sync_meta

\* A version has been recorded after a higher one.
C24_Witness ==
    /\ lastOp.op = "update_last_sync"
    /\ storePre.sync_meta # EmptyMap
    /\ get_last_sync_version(storePre.sync_meta) > lastOp.version
    /\ get_last_sync_version(sync_meta) = lastOp.version


(* ------------------------------ write_note ---------------------------- *)

\* The last call was a write_note that returned.
WriteNoteReturned == lastOp.op = "write_note" /\ storeRet.raised = "none"

\* The template the composer is to use: the stored one with that name if
\* there is one, the remote default otherwise.
ClaimedTemplate ==
    IF HasName(storePre.note_templates, lastOp.name)
    THEN get_note_template(storePre.note_templates, lastOp.name)
    ELSE zot_note_template.note

\* C25: a write_note that returns has rendered the stored template of that
\* name if there is one, the remote default otherwise, with a value for
\* every replacement field of that template; it has added exactly
\* one child note with that content under the target key when the remote
\* library accepted the create call, and none otherwise; it has added one
\* local note with that content to the row of the target key if there is
\* such a row, and none if there is not; items and templates are unchanged.
C25_WriteNoteComposes ==
    WriteNoteReturned =>
        LET content == format(ClaimedTemplate, lastOp.data) IN
        /\ ~format_raises(ClaimedTemplate, lastOp.data)
        /\ items = storePre.items
        /\ note_templates = storePre.note_templates
        /\ IF lastOp.created = "success"
           THEN \E n \in remote_notes :
                    /\ n \notin storePre.remote_notes
                    /\ remote_notes = storePre.remote_notes \cup {n}
                    /\ n.parentItem = lastOp.parent_key
                    /\ n.note = content
                    /\ storeRet = Returned(n.key)
           ELSE remote_notes = storePre.remote_notes
        /\ IF HasKey(storePre.items, lastOp.parent_key)
           THEN \E r \in notes :
                    /\ r \notin storePre.notes
                    /\ notes = storePre.notes \cup {r}
                    /\ r.item_id = RowOfKey(storePre.items, lastOp.parent_key).id
                    /\ r.content = content
           ELSE notes = storePre.notes

\* A note has been composed from a stored template with a replacement
\* field, created remotely and recorded on the local row of the target key.
C25_Witness ==
    /\ WriteNoteReturned
    /\ lastOp.created = "success"
    /\ HasName(storePre.note_templates, lastOp.name)
    /\ fields_of(ClaimedTemplate) # {}
    /\ HasKey(storePre.items, lastOp.parent_key)
    /\ notes # storePre.notes

\* C26: write_note raises only when there is neither a stored template nor
\* a remote default, when a replacement field has no value, or when the
\* create call itself raises; a replacement field without a value always
\* makes it raise; and a write_note that raises has created no remote note
\* and added no local note.
C26_FailsOnlyWithoutTemplateOrValue ==
    lastOp.op = "write_note" =>
        /\ storeRet.raised # "none" =>
              /\ \/ /\ ~HasName(storePre.note_templates, lastOp.name)
                    /\ ~lastOp.default_available
                 \/ format_raises(ClaimedTemplate, lastOp.data)
                 \/ lastOp.created = "raises"
              /\ remote_notes = storePre.remote_notes
              /\ notes = storePre.notes
        /\ format_raises(ClaimedTemplate, lastOp.data) => storeRet.raised # "none"


(* ------------------------------ lab_id.py ------------------------------ *)

\* The last call was set_lab_id.
SetCalled == lastOp.op = "set_lab_id"

\* The extra field set_lab_id was given, and the one it left.
ExtraBefore == storePre.library[lastOp.key].extra
ExtraAfter == library[lastOp.key].extra

\* The identifiers of the LAB_ID matches of an extra field.
matched_ids(extra) == {extra[match_end(extra, i)].id : i \in match_starts(extra)}

\* No line of the extra field starts with "LAB_ID:".
NoLabIdLine(extra) == \A i \in 1..Len(extra) : extra[i].kind \notin {"lab", "label"}

\* C27: after set_lab_id(item, id) with a nine-digit id, whatever the extra
\* field held, extract_lab_id(item) returns id, every LAB_ID match of the
\* field carries id (a second set replaces the first, no stale one is left:
\* there are as many matches as before, one if there was none), and
\* extract_lab_id returns None for an extra field without a LAB_ID line.
C27_SetThenExtract ==
    /\ SetCalled =>
          /\ extract_lab_id(ExtraAfter) = lastOp.lab_id
          /\ matched_ids(ExtraAfter) = {lastOp.lab_id}
          /\ Cardinality(match_starts(ExtraAfter))
                = IF match_starts(ExtraBefore) = {} THEN 1
                  ELSE Cardinality(match_starts(ExtraBefore))
    /\ \A key \in DOMAIN library :
          NoLabIdLine(library[key].extra) => is_none(extract_lab_id(library[key].extra))

\* A second identifier was set on an item that carried another one, while
\* the extra field of another item has no LAB_ID line.
C27_Witness ==
    /\ SetCalled
    /\ storeOps >= 2
    /\ ~is_none(extract_lab_id(ExtraBefore))
    /\ extract_lab_id(ExtraBefore) # lastOp.lab_id
    /\ \E key \in DOMAIN library :
          /\ key # lastOp.key
          /\ library[key].extra # <<>>
          /\ NoLabIdLine(library[key].extra)


\* The last call was a run of ensure_lab_ids.
EnsureCalled == lastOp.op = "ensure_lab_ids"

\* The identifier an item carried when the run listed it.
Carried(key) == extract_lab_id(storePre.library[key].extra)

\* The items zot.update_item was called with in the run.
Updated == {lastOp.updates[i] : i \in 1..Len(lastOp.updates)}

\* The entries of 'mismatches' for an item.
MismatchesOf(key) ==
    {i \in 1..Len(storeRet.value.mismatches) :
        storeRet.value.mismatches[i].zotero_key = key}

\* The registry had the item's identifier for another key when the run
\* started.
Mismatched(key) ==
    /\ ~is_none(Carried(key))
    /\ Carried(key) \in DOMAIN storePre.lab_db
    /\ storePre.lab_db[Carried(key)] # key

\* C28: in a run of ensure_lab_ids an item that carries a LAB_ID is not
\* rewritten and not sent to update_item, and if the registry has that
\* identifier for another key, exactly one mismatch entry (lab_id,
\* zotero_key, db_key) is reported for the item and the registry still has
\* the identifier for that other key.
C28_ExistingPreserved ==
    EnsureCalled =>
        \A key \in Keys :
            ~is_none(Carried(key)) =>
                /\ library[key] = storePre.library[key]
                /\ key \notin Updated
                /\ Mismatched(key) =>
                      /\ Cardinality(MismatchesOf(key)) = 1
                      /\ \A i \in MismatchesOf(key) :
                            storeRet.value.mismatches[i]
                               = [lab_id |-> Carried(key), zotero_key |-> key,
                                  db_key |-> storePre.lab_db[Carried(key)]]
                      /\ lab_db[Carried(key)] = storePre.lab_db[Carried(key)]

\* A run listed an item with an identifier the registry had for another key.
C28_Witness ==
    /\ EnsureCalled
    /\ \E key \in Keys : Mismatched(key)


\* The items of a listing that carried no identifier, in the order listed.
RECURSIVE without_id(_, _)
without_id(order, i) ==
    IF i > Len(order) THEN <<>>
    ELSE IF is_none(Carried(order[i]))
         THEN <<order[i]>> \o without_id(order, i + 1)
         ELSE without_id(order, i + 1)

\* The identifiers of the run are the numbers after the largest of the
\* registry, in item order, each recorded for its item and returned.
AllocatedInOrder ==
    LET unlabelled == without_id(lastOp.order, 1)
        allocated == storeRet.value.allocated
    IN /\ Len(allocated) = Len(unlabelled)
       /\ \A i \in 1..Len(allocated) :
             /\ int_of(allocated[i]) = max_id_of(storePre.lab_db) + i
             /\ lab_db[allocated[i]] = unlabelled[i]

\* The identifiers of the run have nine digits.
AllocatedNineDigits ==
    \A i \in 1..Len(storeRet.value.allocated) :
        storeRet.value.allocated[i].width = LAB_ID_DIGITS

\* Every listed item carries an identifier.
AllCarry == \A key \in Keys : ~is_none(extract_lab_id(library[key].extra))

\* C29: a run of ensure_lab_ids allocates max(registry ids at its start)
\* + 1, + 2, ... to the items without an identifier in item order, each
\* zero-padded to nine digits, recorded in the registry for the item's key
\* and returned in 'allocated', and after the run every listed item carries
\* an identifier.
C29_AllocatesSequential ==
    EnsureCalled => AllocatedInOrder /\ AllocatedNineDigits /\ AllCarry


(* --------------------------- pyzotero_academic --------------------------- *)

\* The last call was a dry run of one of the five functions.
DryRun ==
    /\ lastOp.op \in {"enrich_from_doi", "enrich_citation_counts",
                      "auto_tag_by_keywords", "normalize_author_names",
                      "fix_date_formats"}
    /\ lastOp.dry_run

\* The items the function has a change for, as the library stood at the
\* call.
Changeable ==
    {key \in Keys :
        proposal(lastOp.op, storePre.library[key], lastOp.arg).outcome = "proposed"}

\* C30: with dry_run=True enrich_from_doi, enrich_citation_counts,
\* auto_tag_by_keywords, normalize_author_names and fix_date_formats issue
\* no update_item call and leave the library as it was, and return one
\* proposed change for each item they have a change for.
C30_DryRunWritesNothing ==
    DryRun =>
        /\ lastOp.calls = <<>>
        /\ library = storePre.library
        /\ Len(storeRet.value.proposals) = Cardinality(Changeable)
        /\ {storeRet.value.proposals[i].item_key :
               i \in 1..Len(storeRet.value.proposals)} = Changeable

\* A dry run proposed changes for both items.
C30_Witness ==
    /\ DryRun
    /\ Cardinality(Changeable) = 2
    /\ Len(storeRet.value.proposals) = 2


(* ------------------------- sync.py: the cursor ------------------------- *)

\* The cursor the store holds.
Cursor == get_last_sync_version(sync_meta)

\* The remote has not changed since the running pull listed the changes:
\* a write gives its item a version above every earlier one, so the listing
\* taken now would differ.
UnchangedSinceListing == remote_versions = zot_item_versions(since)

\* C31: after passes that all ran to their end, the last of them a pull
\* during which the remote did not change, every key of the remote has a
\* local row, also a key the remote created before a push recorded the
\* library version.
C31_NoRemoteItemLost ==
    (PullDone /\ UnchangedSinceListing) =>
        \A key \in DOMAIN remote : HasKey(items, key)

\* The remote items that changed after the running pull listed the changes.
ChangedAfterListing ==
    {key \in DOMAIN remote :
        /\ remote[key].version > since
        /\ Get(remote_versions, key, 0) # remote[key].version}

\* C32: a remote change made while a pull is in progress, after the
\* listing and before the library version is read, is not skipped for
\* ever: the cursor the pull records is below the version of the change, so
\* the next pull lists it.
C32_ConcurrentChangeNotSkipped ==
    PullDone =>
        \A key \in ChangedAfterListing :
            key \in DOMAIN zot_item_versions(Cursor)

\* No writer but the running push has changed the remote since the push
\* listed the versions: every item is as listed or as the pass wrote it.
NoOtherWriter ==
    \A key \in DOMAIN remote :
        \/ Get(remote_versions, key, 0) = remote[key].version
        \/ \E w \in writes : w.key = key /\ w.assigned = remote[key].version

\* C33: after a push that ran to its end with no other writer changing the
\* remote, every row whose key the remote knows has the remote's version of
\* the item, and a push that follows at once finds no row to write
\* remotely and none to update locally.
C33_PushReachesFixpoint ==
    (PushDone /\ NoOtherWriter) =>
        \A row \in items :
            /\ row.key \in DOMAIN remote => row.version = remote[row.key].version
            /\ ~push_local_newer(row, zot_item_versions_all)
            /\ ~push_remote_newer(row, zot_item_versions_all)

\* A push wrote a row to the remote and stored the version the remote
\* gave it, and no other writer was active.
C33_Witness ==
    /\ PushDone
    /\ NoOtherWriter
    /\ \E w \in writes : \E row \in items :
          /\ row.key = w.key
          /\ row.version = w.assigned
          /\ \E p \in pre : p.id = row.id /\ p.version # row.version


(* ----------------------- database.py: init_db ------------------------- *)

\* C34: whenever init_db returns a connection, the marker of the file is
\* the target version; a file whose marker is above the target is not
\* accepted.
C34_OpenMeansTarget ==
    mpc = "open" => user_version = SCHEMA_VERSION

\* The running open retries the migration the last open failed in, and the
\* statement it is about to run raises on the schema the failed attempt
\* left.
RetryBlocked ==
    /\ mpc = "migrating"
    /\ lastFailed # 0
    /\ mver = lastFailed
    /\ mver \in registry
    /\ mstmt <= Len(MIGRATIONS[mver])
    /\ stmt_fails(schema, MIGRATIONS[mver][mstmt])

\* C35: after a migration failed partway because of a fault, the re-run of
\* that migration by a later open succeeds on the schema the failed attempt
\* left: no statement of the re-run raises because its object exists.
C35_RetrySucceeds == ~RetryBlocked


(* ------------------- database.py: the dependent tables ----------------- *)

\* The rows of a dependent table whose item row does not exist.
Orphans(rows) == {r \in rows : ~HasId(items, r.item_id)}

\* C36: after any sequence of store operations every tag, attachment, note
\* and full-text entry refers to an item row that exists.
C36_DependentsHaveItems ==
    /\ Orphans(tags) = {}
    /\ Orphans(attachments) = {}
    /\ Orphans(notes) = {}
    /\ Orphans(fulltext) = {}


(* ------------------- sync.py: write_note, the local note --------------- *)

\* The last call was a write_note that created no remote note: it returned
\* None or it raised.
WriteNoteCreatedNothing ==
    /\ lastOp.op = "write_note"
    /\ \/ storeRet = Returned(None)
       \/ storeRet.raised # "none"

\* C37: a write_note whose remote create call reported no success (it
\* returns None) or that raised has added no row to the local notes table.
C37_LocalNoteOnlyIfCreated ==
    WriteNoteCreatedNothing => notes = storePre.notes


(* ---------------- lab_id.py: identifiers are handed out once ----------- *)

\* The identifiers the last run allocated.
AllocatedIds == {storeRet.value.allocated[i] : i \in 1..Len(storeRet.value.allocated)}

\* The identifiers the items of the library carried before the last run.
CarriedIds == {Carried(key) : key \in Keys} \ {extract_lab_id(<<>>)}

\* No identifier of the run was in the registry before it.
AllocatedNotRegistered == AllocatedIds \cap DOMAIN storePre.lab_db = {}

\* No identifier of the run was carried by an item before it.
AllocatedNotCarried == AllocatedIds \cap CarriedIds = {}

\* The identifiers of the run differ from each other.
AllocatedDistinct == Cardinality(AllocatedIds) = Len(storeRet.value.allocated)

\* Every entry the registry had before the run still maps to its key.
RegistryNotRemapped ==
    \A id \in DOMAIN storePre.lab_db :
        id \in DOMAIN lab_db /\ lab_db[id] = storePre.lab_db[id]

\* C38: an identifier ensure_lab_ids allocates differs from every
\* identifier in the registry, from every identifier an item of the library
\* carries, in whatever order the items are listed, and from the other
\* identifiers of the run; and no entry of the registry is re-mapped to
\* another key.
C38_NoIdentifierTwice ==
    EnsureCalled =>
        /\ AllocatedNotRegistered
        /\ AllocatedNotCarried
        /\ AllocatedDistinct
        /\ RegistryNotRemapped


(* -------------------- lab_id.py: the registry and the items ------------ *)

\* The identifiers the registry records for the key.
RegisteredFor(key) == {id \in DOMAIN lab_db : lab_db[id] = key}

\* The registry has at most one identifier for each key.
OneIdPerKey == \A key \in Keys : Cardinality(RegisteredFor(key)) <= 1

\* Every identifier the registry records for a key is the one the item
\* carries in the library.
RegisteredIsCarried ==
    \A key \in Keys : \A id \in RegisteredFor(key) :
        extract_lab_id(library[key].extra) = id

\* C39: after any sequence of ensure_lab_ids runs, with update_item failing
\* for some items or not, the registry maps at most one identifier to each
\* key and every identifier it records for a key is the identifier the item
\* carries on the remote.
C39_RegistryMatchesLibrary ==
    EnsureCalled => OneIdPerKey /\ RegisteredIsCarried

====
